---- MODULE Spec2Model ----
(***************************************************************************)
(* Model of the "About" paragraph generator of the preqin-enricher popup   *)
(* (src/extension/popup.js, buildAbout and its helpers).                   *)
(*                                                                         *)
(* A JavaScript string is a sequence of one-character strings.  A          *)
(* JavaScript value is a record tagged by its type (field t); a call that  *)
(* raises a TypeError yields the value Throw.                              *)
(***************************************************************************)
EXTENDS Integers, Sequences, FiniteSets, TLC

VARIABLES
    pc,             \* position inside buildAbout: "idle", "L265", ... "done", "threw"
    opts,           \* the argument of the running call
    firmName,       \* const firmName                       (popup.js:265)
    firmTypeRaw,    \* const firmTypeRaw                    (popup.js:266)
    firmType,       \* const firmType                       (popup.js:267)
    article,        \* const article                        (popup.js:268)
    loc,            \* const loc = chooseLocation(...)      (popup.js:270)
    servicesClause, \* let servicesClause                   (popup.js:278)
    fundClause,     \* let fundClause                       (popup.js:288)
    about,          \* the returned text                    (popup.js:303)
    fn,             \* a helper applied on its own: its name and arguments
    ret             \* the value that helper returned

\* The three-button popup (content.js:196-605)
VARIABLES
    hqSource,       \* let hqSource                         (content.js:206)
    hqEnriched,     \* let hqEnriched                       (content.js:207)
    altSources,     \* let altSources                       (content.js:208)
    altEnriched,    \* let altEnriched                      (content.js:209)
    status,         \* the message last given to logStatus
    scrapePending,  \* a scrape callback is due
    applyPending,   \* an apply callback is due
    runs,           \* the activations of handleRunEnrichment, each at an await
    event           \* what the last step did outside the popup state

popupVars == <<hqSource, hqEnriched, altSources, altEnriched, status,
               scrapePending, applyPending, runs, event>>

\* The one-button popup (popup.js:166-545)
VARIABLES
    enrichRuns,     \* the activations of runEnrich, each at an await
    enrichStatus,   \* the message last given to setStatus
    page            \* the fields of the page form that runEnrich writes

enrichVars == <<enrichRuns, enrichStatus, page>>

\* The result-box popup (popup.js:1-164)
VARIABLES
    resultBox,      \* resultBox.textContent
    hasInput,       \* one of the popup's address and phone inputs is not empty
    handlers,       \* the activations of the three click handlers, each at an await
    lastData,       \* the body of the ok answer that arrived last
    boxEvent        \* what the last step did: a click, a message sent to the tab

boxVars == <<resultBox, hasInput, handlers, lastData, boxEvent>>

\* The floating-panel content script (part_000)
VARIABLES
    panels,         \* the elements with id preqin-enricher-panel, in document order
    inFlight,       \* the activations of runEnrichment awaiting the backend
    form,           \* the fields #hq-country, #phone, #firm-currency of the page
    panelEvent      \* what the last step was

panelVars == <<panels, inFlight, form, panelEvent>>

\* the variables outside the model of buildAbout
otherVars == <<popupVars, enrichVars, boxVars, panelVars>>

vars == <<pc, opts, firmName, firmTypeRaw, firmType, article, loc,
          servicesClause, fundClause, about, fn, ret, otherVars>>

\* the variables of buildAbout and of the helpers applied on their own
aboutVars == <<pc, opts, firmName, firmTypeRaw, firmType, article, loc,
               servicesClause, fundClause, about, fn, ret>>

\* the variables outside the three-button popup
restOfPopup == <<aboutVars, enrichVars, boxVars, panelVars>>

\* the variables outside the one-button popup
restOfEnrich == <<aboutVars, popupVars, boxVars, panelVars>>

\* the variables outside the result-box popup
restOfBox == <<aboutVars, popupVars, enrichVars, panelVars>>

\* the variables outside the floating-panel content script
restOfPanel == <<aboutVars, popupVars, enrichVars, boxVars>>

\* the state of a buildAbout call
callVars == <<opts, firmName, firmTypeRaw, firmType, article, loc,
              servicesClause, fundClause, about>>

\* the state of a helper applied on its own
helperVars == <<fn, ret>>

(***************************************************************************)
(* String literals of the source                                           *)
(***************************************************************************)
\* ""
lit_empty ==
    <<>>
\* "The firm"
lit_The_firm ==
    <<"T", "h", "e", " ", "f", "i", "r", "m">>
\* "firm"
lit_firm ==
    <<"f", "i", "r", "m">>
\* "law firm"
lit_law_firm ==
    <<"l", "a", "w", " ", "f", "i", "r", "m">>
\* " firm"
lit_sp_firm ==
    <<" ", "f", "i", "r", "m">>
\* "a"
lit_a ==
    <<"a">>
\* "an"
lit_an ==
    <<"a", "n">>
\* "university"
lit_university ==
    <<"u", "n", "i", "v", "e", "r", "s", "i", "t", "y">>
\* "unicorn"
lit_unicorn ==
    <<"u", "n", "i", "c", "o", "r", "n">>
\* "use"
lit_use ==
    <<"u", "s", "e">>
\* "user"
lit_user ==
    <<"u", "s", "e", "r">>
\* "european"
lit_european ==
    <<"e", "u", "r", "o", "p", "e", "a", "n">>
\* "hour"
lit_hour ==
    <<"h", "o", "u", "r">>
\* "honest"
lit_honest ==
    <<"h", "o", "n", "e", "s", "t">>
\* "honour"
lit_honour ==
    <<"h", "o", "n", "o", "u", "r">>
\* "aeiou"
lit_aeiou ==
    <<"a", "e", "i", "o", "u">>
\* "It provides a wide range of financial services,"
lit_services_placeholder ==
    <<"I", "t", " ", "p", "r", "o", "v", "i", "d", "e", "s", " ", "a", " ", "w", "i", "d", "e", " ", "r", "a", "n", "g", "e", " ", "o", "f", " ", "f", "i", "n", "a", "n", "c", "i", "a", "l", " ", "s", "e", "r", "v", "i", "c", "e", "s", ",">>
\* "It provides services including "
lit_services_prefix ==
    <<"I", "t", " ", "p", "r", "o", "v", "i", "d", "e", "s", " ", "s", "e", "r", "v", "i", "c", "e", "s", " ", "i", "n", "c", "l", "u", "d", "i", "n", "g", " ">>
\* ", and more."
lit_comma_and_more ==
    <<",", " ", "a", "n", "d", " ", "m", "o", "r", "e", ".">>
\* " and more."
lit_sp_and_more ==
    <<" ", "a", "n", "d", " ", "m", "o", "r", "e", ".">>
\* "."
lit_period ==
    <<".">>
\* ","
lit_comma ==
    <<",">>
\* ", "
lit_comma_sp ==
    <<",", " ">>
\* " "
lit_sp ==
    <<" ">>
\* "The firm advises various types of funds."
lit_funds_placeholder ==
    <<"T", "h", "e", " ", "f", "i", "r", "m", " ", "a", "d", "v", "i", "s", "e", "s", " ", "v", "a", "r", "i", "o", "u", "s", " ", "t", "y", "p", "e", "s", " ", "o", "f", " ", "f", "u", "n", "d", "s", ".">>
\* "The fund "
lit_The_fund ==
    <<"T", "h", "e", " ", "f", "u", "n", "d", " ">>
\* "type"
lit_type ==
    <<"t", "y", "p", "e">>
\* "types"
lit_types ==
    <<"t", "y", "p", "e", "s">>
\* " advised by the firm "
lit_advised_by ==
    <<" ", "a", "d", "v", "i", "s", "e", "d", " ", "b", "y", " ", "t", "h", "e", " ", "f", "i", "r", "m", " ">>
\* "is"
lit_is ==
    <<"i", "s">>
\* "are"
lit_are ==
    <<"a", "r", "e">>
\* ", among others."
lit_among_others ==
    <<",", " ", "a", "m", "o", "n", "g", " ", "o", "t", "h", "e", "r", "s", ".">>
\* " and "
lit_sp_and_sp ==
    <<" ", "a", "n", "d", " ">>
\* ", and "
lit_comma_and_sp ==
    <<",", " ", "a", "n", "d", " ">>
\* "an unknown location"
lit_unknown_location ==
    <<"a", "n", " ", "u", "n", "k", "n", "o", "w", "n", " ", "l", "o", "c", "a", "t", "i", "o", "n">>
\* " is "
lit_sp_is_sp ==
    <<" ", "i", "s", " ">>
\* " headquartered in "
lit_headquartered ==
    <<" ", "h", "e", "a", "d", "q", "u", "a", "r", "t", "e", "r", "e", "d", " ", "i", "n", " ">>
\* "[object Object]"
lit_object_Object ==
    <<"[", "o", "b", "j", "e", "c", "t", " ", "O", "b", "j", "e", "c", "t", "]">>

(***************************************************************************)
(* JavaScript built-ins used by the source                                 *)
(***************************************************************************)
UpperLetters ==
    <<"A", "B", "C", "D", "E", "F", "G", "H", "I", "J", "K", "L", "M",
      "N", "O", "P", "Q", "R", "S", "T", "U", "V", "W", "X", "Y", "Z">>

LowerLetters ==
    <<"a", "b", "c", "d", "e", "f", "g", "h", "i", "j", "k", "l", "m",
      "n", "o", "p", "q", "r", "s", "t", "u", "v", "w", "x", "y", "z">>

Digits == {"0", "1", "2", "3", "4", "5", "6", "7", "8", "9"}

\* the characters String.prototype.trim removes (those the inputs use)
WhiteSpace == {" ", "\t", "\n"}

IsUpper(c) == \E i \in DOMAIN UpperLetters : UpperLetters[i] = c

lowerChar(c) ==
    IF IsUpper(c)
    THEN LowerLetters[CHOOSE i \in DOMAIN UpperLetters : UpperLetters[i] = c]
    ELSE c

\* String.prototype.toLowerCase
toLowerCase(s) == IF s = <<>> THEN <<>> ELSE [i \in 1..Len(s) |-> lowerChar(s[i])]

\* The character U+00DF (LATIN SMALL LETTER SHARP S), written as an ASCII atom.
\* It has no single upper-case character: toUpperCase maps it to "SS", and
\* toLowerCase leaves it as it is.
SharpS == "U+00DF"

\* the upper-case mapping of one character, as a string
upperChar(c) ==
    IF c = SharpS THEN <<"S", "S">>
    ELSE IF \E i \in DOMAIN LowerLetters : LowerLetters[i] = c
    THEN <<UpperLetters[CHOOSE i \in DOMAIN LowerLetters : LowerLetters[i] = c]>>
    ELSE <<c>>

RECURSIVE toUpperCase(_)
\* String.prototype.toUpperCase
toUpperCase(s) == IF s = <<>> THEN <<>> ELSE upperChar(Head(s)) \o toUpperCase(Tail(s))

MinOf(S) == CHOOSE m \in S : \A k \in S : m <= k
MaxOf(S) == CHOOSE m \in S : \A k \in S : m >= k

\* String.prototype.trim
trim(s) ==
    LET keep == {i \in 1..Len(s) : s[i] \notin WhiteSpace}
    IN  IF keep = {} THEN <<>> ELSE SubSeq(s, MinOf(keep), MaxOf(keep))

\* String.prototype.endsWith
endsWith(s, suffix) ==
    /\ Len(suffix) <= Len(s)
    /\ SubSeq(s, Len(s) - Len(suffix) + 1, Len(s)) = suffix

\* /\d/.test(s)
hasDigit(s) == \E i \in 1..Len(s) : s[i] \in Digits

\* String.prototype.split with a one-character separator
RECURSIVE split(_, _)
split(s, sep) ==
    LET at == {i \in 1..Len(s) : s[i] = sep}
    IN  IF at = {} THEN <<s>>
        ELSE <<SubSeq(s, 1, MinOf(at) - 1)>>
                 \o split(SubSeq(s, MinOf(at) + 1, Len(s)), sep)

\* Array.prototype.join
RECURSIVE join(_, _)
join(list, sep) ==
    IF list = <<>> THEN <<>>
    ELSE IF Len(list) = 1 THEN list[1]
    ELSE list[1] \o sep \o join(Tail(list), sep)

\* Array.prototype.map
mapSeq(list, F(_)) == IF list = <<>> THEN <<>> ELSE [i \in 1..Len(list) |-> F(list[i])]

\* Array.prototype.filter
filterSeq(list, P(_)) == SelectSeq(list, P)

\* Array.prototype.slice(0, n)
sliceTo(list, n) == SubSeq(list, 1, IF Len(list) < n THEN Len(list) ELSE n)

\* Array.prototype.slice(0, -1)
sliceButLast(list) == SubSeq(list, 1, Len(list) - 1)

(***************************************************************************)
(* JavaScript values                                                       *)
(***************************************************************************)
Undefined == [t |-> "undefined"]
Null      == [t |-> "null"]
Throw     == [t |-> "throw"]          \* a raised TypeError
Str(s)    == [t |-> "string", v |-> s]
Num(d)    == [t |-> "number", digits |-> d]  \* d: the decimal digits of the number
Arr(a)    == [t |-> "array", items |-> a]    \* a: a sequence of values
\* the structured location { state, city, country }
Hq(st, ci, co) == [t |-> "object", state |-> st, city |-> ci, country |-> co]
EmptyObject == Hq(Undefined, Undefined, Undefined)

IsString(x) == x.t = "string"
IsArray(x)  == x.t = "array"

\* ToBoolean
Truthy(x) ==
    CASE x.t \in {"undefined", "null"} -> FALSE
      [] x.t = "string" -> x.v # <<>>
      [] x.t = "number" -> x.digits # <<"0">>
      [] OTHER -> TRUE

\* a || b
Or(a, b) == IF Truthy(a) THEN a ELSE b

\* property read parsed.state, parsed.city, parsed.country
GetField(x, f) ==
    IF x.t = "object"
    THEN CASE f = "state" -> x.state [] f = "city" -> x.city [] f = "country" -> x.country
    ELSE Undefined

\* x.trim(): a TypeError unless x is a string
callTrim(x) == IF IsString(x) THEN Str(trim(x.v)) ELSE Throw

\* a && a.trim()
AndTrim(a) == IF Truthy(a) THEN callTrim(a) ELSE a

\* x.toString() of a truthy value
RECURSIVE toStringOf(_)
toStringOf(x) ==
    CASE x.t = "string" -> x.v
      [] x.t = "number" -> x.digits
      [] x.t = "array"  -> join(mapSeq(x.items, LAMBDA e :
                               IF e.t \in {"undefined", "null"} THEN <<>> ELSE toStringOf(e)),
                             lit_comma)
      [] OTHER -> lit_object_Object

\* `${x}` for the values a template literal of the source receives
render(x) ==
    CASE x.t = "string" -> x.v
      [] x.t = "number" -> x.digits
      [] x.t = "null" -> <<"n", "u", "l", "l">>
      [] x.t = "undefined" -> <<"u", "n", "d", "e", "f", "i", "n", "e", "d">>
      [] OTHER -> toStringOf(x)

(***************************************************************************)
(* Helpers of popup.js                                                     *)
(***************************************************************************)
ServiceLimit == 5    \* pickItems(servicesIn, 5)
FundLimit == 4       \* pickItems(fundsIn, 4)

\* function sentenceCase(s) of the earlier popup script: a string
sentenceCase(s) ==
    IF ~Truthy(s) \/ ~IsString(s) THEN lit_empty
    ELSE LET t == trim(s.v)
         IN  IF t = <<>> THEN lit_empty
             ELSE toUpperCase(<<t[1]>>) \o toLowerCase(Tail(t))

\* pickItems taking String(a) of every element, the absent ones too
pickItems_stringOfAll(arr, n) ==
    IF ~IsArray(arr) THEN <<>>
    ELSE sliceTo(filterSeq(mapSeq(arr.items, LAMBDA a : trim(render(a))),
                           LAMBDA s : s # <<>>),
                 n)

\* pickItems cutting to n items before the blank ones are dropped
pickItems_cutFirst(arr, n) ==
    IF ~IsArray(arr) THEN <<>>
    ELSE filterSeq(mapSeq(sliceTo(arr.items, n),
                          LAMBDA a : trim(toStringOf(Or(a, Str(lit_empty))))),
                   LAMBDA s : s # <<>>)

\* function pickItems(arr, n): a sequence of strings
pickItems(arr, n) ==
    IF ~IsArray(arr) THEN <<>>
    ELSE sliceTo(filterSeq(mapSeq(arr.items, LAMBDA a : trim(toStringOf(Or(a, Str(lit_empty))))),
                           LAMBDA s : s # <<>>),
                 n)

\* joinWithOxford without the comma before "and"
joinWithOxford_noSerialComma(list) ==
    IF Len(list) = 0 THEN lit_empty
    ELSE IF Len(list) = 1 THEN list[1]
    ELSE join(sliceButLast(list), lit_comma_sp) \o lit_sp_and_sp \o list[Len(list)]

\* function joinWithOxford(list)
joinWithOxford(list) ==
    IF Len(list) = 0 THEN lit_empty
    ELSE IF Len(list) = 1 THEN list[1]
    ELSE IF Len(list) = 2 THEN list[1] \o lit_sp_and_sp \o list[2]
    ELSE join(sliceButLast(list), lit_comma_sp) \o lit_comma_and_sp \o list[Len(list)]

consonantSoundExceptions ==
    {lit_university, lit_unicorn, lit_use, lit_user, lit_european}

vowelSoundExceptions == {lit_hour, lit_honest, lit_honour}

\* function chooseArticle(word): Str("a"), Str("an") or Throw
chooseArticle(word) ==
    IF ~Truthy(word) THEN Str(lit_a)
    ELSE IF ~IsString(word) THEN Throw
    ELSE LET w == toLowerCase(trim(word.v))
         IN  IF w \in consonantSoundExceptions THEN Str(lit_a)
             ELSE IF w \in vowelSoundExceptions THEN Str(lit_an)
             ELSE IF Len(w) > 0 /\ (\E i \in 1..Len(lit_aeiou) : lit_aeiou[i] = w[1])
                  THEN Str(lit_an)
             ELSE Str(lit_a)

\* function normalizeFirmTypeLower(raw): a string value or Throw
normalizeFirmTypeLower(raw) ==
    IF ~Truthy(raw) THEN Str(lit_firm)
    ELSE IF ~IsString(raw) THEN Throw
    ELSE LET s == toLowerCase(trim(raw.v))
         IN  IF s = lit_law_firm THEN Str(lit_law_firm)
             ELSE IF ~endsWith(s, lit_firm) THEN Str(s \o lit_sp_firm)
             ELSE Str(s)

\* the object { primary, country } returned by chooseLocation
Loc(p, c) == [t |-> "object", primary |-> p, country |-> c]

\* parseRaw falling back to the whole second-to-last token, digits included
parseRaw_noStrip(raw) ==
    LET parts == filterSeq(mapSeq(split(raw, ","), trim), LAMBDA p : p # <<>>)
    IN  IF Len(parts) = 0 THEN Loc(Null, Null)
        ELSE LET country == Str(parts[Len(parts)])
                 candidates == filterSeq(sliceButLast(parts), LAMBDA tok : ~hasDigit(tok))
             IN  IF Len(candidates) > 0
                 THEN Loc(Str(candidates[Len(candidates)]), Or(country, Str(lit_empty)))
                 ELSE IF Len(parts) >= 2
                 THEN Loc(Str(parts[Len(parts) - 1]), Or(country, Str(lit_empty)))
                 ELSE Loc(Null, Or(country, Str(lit_empty)))

\* parseRaw taking the first digit-free token instead of the last
parseRaw_firstCandidate(raw) ==
    LET parts == filterSeq(mapSeq(split(raw, ","), trim), LAMBDA p : p # <<>>)
    IN  IF Len(parts) = 0 THEN Loc(Null, Null)
        ELSE LET country == Str(parts[Len(parts)])
                 candidates == filterSeq(sliceButLast(parts), LAMBDA tok : ~hasDigit(tok))
             IN  IF Len(candidates) > 0
                 THEN Loc(Str(candidates[1]), Or(country, Str(lit_empty)))
                 ELSE IF Len(parts) >= 2
                 THEN Loc(Str(parts[Len(parts) - 1]), Or(country, Str(lit_empty)))
                 ELSE Loc(Null, Or(country, Str(lit_empty)))

\* parseRaw taking a lone token as the primary locality instead of the country
parseRaw_loneTokenPrimary(raw) ==
    LET parts == filterSeq(mapSeq(split(raw, ","), trim), LAMBDA p : p # <<>>)
    IN  IF Len(parts) = 0 THEN Loc(Null, Null)
        ELSE IF Len(parts) = 1 THEN Loc(Str(parts[1]), Str(lit_empty))
        ELSE LET candidates == filterSeq(sliceButLast(parts), LAMBDA tok : ~hasDigit(tok))
             IN  Loc(Str(IF Len(candidates) > 0 THEN candidates[Len(candidates)]
                         ELSE parts[Len(parts) - 1]),
                     Str(parts[Len(parts)]))

\* chooseLocation, lines 221-245: the best-effort parse of the raw address
parseRaw(raw) ==
    LET parts == filterSeq(mapSeq(split(raw, ","), trim), LAMBDA p : p # <<>>)
    IN  IF Len(parts) = 0 THEN Loc(Null, Null)
        ELSE LET country == Str(parts[Len(parts)])
                 candidates == filterSeq(sliceButLast(parts), LAMBDA tok : ~hasDigit(tok))
             IN  IF Len(candidates) > 0
                 THEN Loc(Str(candidates[Len(candidates)]), Or(country, Str(lit_empty)))
                 ELSE IF Len(parts) >= 2
                 THEN LET candidate == parts[Len(parts) - 1]
                          subparts == filterSeq(
                                          filterSeq(mapSeq(split(candidate, " "), trim),
                                                    LAMBDA s : s # <<>>),
                                          LAMBDA sp : ~hasDigit(sp))
                          primary == IF Len(subparts) > 0 THEN join(subparts, lit_sp)
                                     ELSE candidate
                      IN  Loc(Str(primary), Or(country, Str(lit_empty)))
                 ELSE Loc(Null, Or(country, Str(lit_empty)))

\* function chooseLocation(parsed, raw): Loc(primary, country) or Throw
chooseLocation(parsed, raw) ==
    LET state   == AndTrim(GetField(parsed, "state"))
        city    == AndTrim(GetField(parsed, "city"))
        country == AndTrim(GetField(parsed, "country"))
        rawTrim == AndTrim(raw)
    IN  IF Truthy(parsed) /\ Throw \in {state, city, country} THEN Throw
        ELSE IF Truthy(parsed) /\ Truthy(state) THEN Loc(state, Or(country, Str(lit_empty)))
        ELSE IF Truthy(parsed) /\ Truthy(city) THEN Loc(city, Or(country, Str(lit_empty)))
        ELSE IF rawTrim = Throw THEN Throw
        ELSE IF Truthy(rawTrim) THEN parseRaw(raw.v)
        ELSE Loc(Null, Null)

\* function formatService(s), on a string
formatService(s) == IF s = <<>> THEN lit_empty ELSE toLowerCase(trim(s))

\* /^[A-Z]{2,4}$/.test(t)
isAcronym(t) == Len(t) \in 2..4 /\ \A i \in 1..Len(t) : IsUpper(t[i])

\* formatFund lower-casing every item, acronyms included
formatFund_lowerAll(f) == IF f = <<>> THEN lit_empty ELSE toLowerCase(trim(f))

\* function formatFund(f), on a string
formatFund(f) ==
    IF f = <<>> THEN lit_empty
    ELSE LET t == trim(f) IN IF isAcronym(t) THEN t ELSE toLowerCase(t)

(***************************************************************************)
(* Inputs: the texts a page can hold and the values a caller can pass      *)
(***************************************************************************)
\* "Acme Capital"
in_Acme_Capital ==
    <<"A", "c", "m", "e", " ", "C", "a", "p", "i", "t", "a", "l">>
\* "  Acme Capital "
in_Acme_padded ==
    <<" ", " ", "A", "c", "m", "e", " ", "C", "a", "p", "i", "t", "a", "l", " ">>
\* "Acme Inc."
in_Acme_Inc ==
    <<"A", "c", "m", "e", " ", "I", "n", "c", ".">>
\* "   "
in_blank ==
    <<" ", " ", " ">>
\* "private equity"
in_private_equity ==
    <<"p", "r", "i", "v", "a", "t", "e", " ", "e", "q", "u", "i", "t", "y">>
\* "Private Equity"
in_Private_Equity ==
    <<"P", "r", "i", "v", "a", "t", "e", " ", "E", "q", "u", "i", "t", "y">>
\* "Law Firm"
in_Law_Firm ==
    <<"L", "a", "w", " ", "F", "i", "r", "m">>
\* "LAW FIRM"
in_LAW_FIRM ==
    <<"L", "A", "W", " ", "F", "I", "R", "M">>
\* "university"
in_university ==
    <<"u", "n", "i", "v", "e", "r", "s", "i", "t", "y">>
\* "University Endowment"
in_University_Endowment ==
    <<"U", "n", "i", "v", "e", "r", "s", "i", "t", "y", " ", "E", "n", "d", "o", "w", "m", "e", "n", "t">>
\* "Hour"
in_hour ==
    <<"H", "o", "u", "r">>
\* "honest broker"
in_honest_broker ==
    <<"h", "o", "n", "e", "s", "t", " ", "b", "r", "o", "k", "e", "r">>
\* "investment"
in_investment ==
    <<"i", "n", "v", "e", "s", "t", "m", "e", "n", "t">>
\* "Asset Management Firm"
in_Asset_Management_Firm ==
    <<"A", "s", "s", "e", "t", " ", "M", "a", "n", "a", "g", "e", "m", "e", "n", "t", " ", "F", "i", "r", "m">>
\* "Affirm"
in_Affirm ==
    <<"A", "f", "f", "i", "r", "m">>
\* "user owned"
in_user_owned ==
    <<"u", "s", "e", "r", " ", "o", "w", "n", "e", "d">>
\* "NY"
in_NY ==
    <<"N", "Y">>
\* "New York"
in_New_York ==
    <<"N", "e", "w", " ", "Y", "o", "r", "k">>
\* "USA"
in_USA ==
    <<"U", "S", "A">>
\* " CA "
in_CA_padded ==
    <<" ", "C", "A", " ">>
\* " USA "
in_USA_padded ==
    <<" ", "U", "S", "A", " ">>
\* "Paris"
in_Paris ==
    <<"P", "a", "r", "i", "s">>
\* "France"
in_France ==
    <<"F", "r", "a", "n", "c", "e">>
\* "1 Main St, Suite 2, New York, NY, USA"
in_example_address ==
    <<"1", " ", "M", "a", "i", "n", " ", "S", "t", ",", " ", "S", "u", "i", "t", "e", " ", "2", ",", " ", "N", "e", "w", " ", "Y", "o", "r", "k", ",", " ", "N", "Y", ",", " ", "U", "S", "A">>
\* "100 Park Ave, New York, NY, USA"
in_scenario_address ==
    <<"1", "0", "0", " ", "P", "a", "r", "k", " ", "A", "v", "e", ",", " ", "N", "e", "w", " ", "Y", "o", "r", "k", ",", " ", "N", "Y", ",", " ", "U", "S", "A">>
\* "12 34, 7  Oak  Rd ,USA"
in_spaced_address ==
    <<"1", "2", " ", "3", "4", ",", " ", "7", " ", " ", "O", "a", "k", " ", " ", "R", "d", " ", ",", "U", "S", "A">>
\* "9 Elm St"
tok_street ==
    <<"9", " ", "E", "l", "m", " ", "S", "t">>
\* "12 34"
tok_postal ==
    <<"1", "2", " ", "3", "4">>
\* " NY"
tok_state ==
    <<" ", "N", "Y">>
\* "USA "
tok_country ==
    <<"U", "S", "A", " ">>
\* " "
tok_blank ==
    <<" ">>
\* "Buyout"
in_Buyout ==
    <<"B", "u", "y", "o", "u", "t">>
\* " Venture Capital "
in_Venture_Capital ==
    <<" ", "V", "e", "n", "t", "u", "r", "e", " ", "C", "a", "p", "i", "t", "a", "l", " ">>
\* "Fund Admin"
in_Fund_Admin ==
    <<"F", "u", "n", "d", " ", "A", "d", "m", "i", "n">>
\* "AUDIT"
in_AUDIT ==
    <<"A", "U", "D", "I", "T">>
\* "tax"
in_tax ==
    <<"t", "a", "x">>
\* "Legal"
in_Legal ==
    <<"L", "e", "g", "a", "l">>
\* "Custody"
in_Custody ==
    <<"C", "u", "s", "t", "o", "d", "y">>
\* "M&A"
in_M_and_A ==
    <<"M", "&", "A">>
\* "buyout"
in_buyout ==
    <<"b", "u", "y", "o", "u", "t">>
\* "venture capital"
in_venture_capital ==
    <<"v", "e", "n", "t", "u", "r", "e", " ", "c", "a", "p", "i", "t", "a", "l">>
\* "CLO"
in_CLO ==
    <<"C", "L", "O">>
\* "real estate"
in_real_estate ==
    <<"r", "e", "a", "l", " ", "e", "s", "t", "a", "t", "e">>
\* "Real Estate"
in_Real_Estate ==
    <<"R", "e", "a", "l", " ", "E", "s", "t", "a", "t", "e">>
\* " Hedge Fund "
in_Hedge_Fund ==
    <<" ", "H", "e", "d", "g", "e", " ", "F", "u", "n", "d", " ">>
\* "PE"
in_PE ==
    <<"P", "E">>
\* "Infrastructure"
in_Infrastructure ==
    <<"I", "n", "f", "r", "a", "s", "t", "r", "u", "c", "t", "u", "r", "e">>
\* "ABCDE"
in_ABCDE ==
    <<"A", "B", "C", "D", "E">>
\* "Ab"
in_Ab ==
    <<"A", "b">>
\* "X"
in_X ==
    <<"X">>
\* "42"
in_42 ==
    <<"4", "2">>
\* "0"
in_0 ==
    <<"0">>
\* "7"
in_7 ==
    <<"7">>

MaxTokens == 3      \* comma-separated tokens in a generated raw address
MaxServices == 7    \* items in a generated services list
MaxFunds == 5       \* items in a generated funds list

ItemAt(pool, i) == pool[((i - 1) % Len(pool)) + 1]
Prefix(pool, k) == IF k = 0 THEN <<>> ELSE [i \in 1..k |-> ItemAt(pool, i)]

NameInputs ==
    {Undefined, Null, Str(lit_empty), Str(in_blank), Str(in_Acme_Capital),
     Str(in_Acme_padded), Str(in_Acme_Inc), Num(in_42), Num(in_0)}

TypeInputs ==
    {Undefined, Null, Str(lit_empty), Str(in_blank), Str(in_private_equity),
     Str(in_Private_Equity), Str(in_Law_Firm), Str(in_LAW_FIRM), Str(in_university),
     Str(in_University_Endowment), Str(in_hour), Str(in_honest_broker),
     Str(in_investment), Str(in_Asset_Management_Firm), Str(in_Affirm),
     Str(in_user_owned), Num(in_7)}

ParsedInputs ==
    {Undefined, Null, EmptyObject,
     Hq(Str(in_NY), Str(in_New_York), Str(in_USA)),
     Hq(Undefined, Str(in_Paris), Str(in_France)),
     Hq(Null, Null, Str(in_France)),
     Hq(Str(in_NY), Undefined, Undefined),
     Hq(Undefined, Str(in_Paris), Str(in_blank)),
     Hq(Str(in_blank), Str(in_blank), Str(in_blank)),
     Hq(Str(in_CA_padded), Undefined, Str(in_USA_padded)),
     Hq(Num(in_7), Undefined, Undefined),
     Hq(Str(in_NY), Undefined, Num(in_42)),
     Str(in_NY)}

TokenPool == <<tok_street, tok_postal, tok_state, tok_country, tok_blank>>

TokenLists == UNION {[1..n -> 1..Len(TokenPool)] : n \in 0..MaxTokens}

RawOf(choice) == join([i \in DOMAIN choice |-> TokenPool[choice[i]]], lit_comma)

RawInputs ==
    {Str(RawOf(c)) : c \in TokenLists}
        \cup {Undefined, Null, Num(in_42), Str(in_example_address), Str(in_scenario_address),
              Str(in_spaced_address)}

ServicePool ==
    <<Str(in_Buyout), Str(in_Venture_Capital), Str(in_Fund_Admin), Str(in_AUDIT),
      Str(in_tax), Str(in_Legal), Str(in_Custody), Str(in_M_and_A)>>

\* the same pool with blank, null and non-string elements in between
MixedServicePool ==
    <<Str(in_Buyout), Str(lit_empty), Str(in_Venture_Capital), Null, Str(in_blank),
      Num(in_7), Str(in_AUDIT), Str(in_tax), Str(in_Legal), Undefined, Str(in_Custody)>>

ServiceInputs ==
    {Arr(Prefix(ServicePool, k)) : k \in 0..MaxServices}
        \cup {Arr(Prefix(MixedServicePool, k)) : k \in 0..(MaxServices + 2)}
        \cup {Arr(<<Str(in_buyout), Str(in_venture_capital)>>),
              Arr(<<Str(in_tax), Str(in_tax), Str(in_Buyout)>>),
              Undefined, Null, Str(in_buyout), Num(in_7), EmptyObject}

FundPool ==
    <<Str(in_CLO), Str(in_Real_Estate), Str(in_Hedge_Fund), Str(in_PE),
      Str(in_Infrastructure), Str(in_ABCDE), Str(in_Ab), Str(in_X)>>

MixedFundPool ==
    <<Str(in_blank), Str(in_CLO), Null, Str(in_Real_Estate), Str(lit_empty),
      Str(in_PE), Num(in_42), Str(in_Infrastructure), Str(in_Hedge_Fund)>>

FundInputs ==
    {Arr(Prefix(FundPool, k)) : k \in 0..MaxFunds}
        \cup {Arr(Prefix(MixedFundPool, k)) : k \in 0..(MaxFunds + 2)}
        \cup {Arr(<<Str(in_CLO), Str(in_real_estate)>>),
              Arr(<<Str(in_X), Str(in_Ab)>>),
              Undefined, Null, Str(in_CLO), Num(in_7), EmptyObject}

MaxJoin == 4        \* items in a list given to joinWithOxford on its own

JoinPool == <<in_CLO, in_real_estate, in_PE, in_buyout, in_tax>>

JoinInputs == {Prefix(JoinPool, k) : k \in 0..MaxJoin}

MaxPick == 5        \* the largest n given to pickItems on its own

PickInputs == ServiceInputs \cup FundInputs

\* a word that starts with U+00DF
in_sharp_s_word == <<SharpS, "e", "t", "a">>

SentenceInputs ==
    {Str(s) : s \in {lit_empty, in_blank, in_tax, in_Buyout, in_AUDIT, in_real_estate,
                     in_Venture_Capital, in_CA_padded, in_M_and_A, in_sharp_s_word}}
        \cup {Undefined, Null, Num(<<"7">>)}

Opts(n, ty, p, r, s, f) ==
    [firmName |-> n, firmTypeRaw |-> ty, hq_parsed |-> p, hq_raw |-> r,
     servicesArr |-> s, fundsArr |-> f]

\* the end-to-end scenario
Scenario ==
    Opts(Str(in_Acme_Capital), Str(in_private_equity), EmptyObject,
         Str(in_scenario_address),
         Arr(<<Str(in_buyout), Str(in_venture_capital)>>),
         Arr(<<Str(in_CLO), Str(in_real_estate)>>))

\* every field absent
EmptyProfile == Opts(Undefined, Undefined, Undefined, Undefined, Undefined, Undefined)

\* every combination of absent and null fields, the lists also with absent and
\* null elements around one item
AbsentProfiles ==
    {Opts(n, ty, p, r, s, f) :
         n \in {Undefined, Null},
         ty \in {Undefined, Null},
         p \in {Undefined, Null, Hq(Null, Null, Null), Hq(Undefined, Null, Undefined)},
         r \in {Undefined, Null},
         s \in {Undefined, Null, Arr(<<Null, Undefined, Str(in_tax)>>)},
         f \in {Undefined, Null, Arr(<<Undefined, Str(in_CLO), Null>>)}}

\* The profiles a call is made with: each family varies some fields over all
\* their inputs and keeps the others as in the scenario or absent.
Profiles ==
    {Opts(n, ty, Scenario.hq_parsed, Scenario.hq_raw, Scenario.servicesArr,
          Scenario.fundsArr) : n \in NameInputs, ty \in TypeInputs}
    \cup {Opts(Scenario.firmName, Scenario.firmTypeRaw, p, r, Scenario.servicesArr,
               Scenario.fundsArr) : p \in ParsedInputs, r \in RawInputs}
    \cup {Opts(Scenario.firmName, Scenario.firmTypeRaw, Scenario.hq_parsed,
               Scenario.hq_raw, s, f) : s \in ServiceInputs, f \in FundInputs}
    \cup {Opts(n, ty, p, r, s, f) :
              n \in {Undefined, Str(in_Acme_Inc)},
              ty \in {Undefined, Str(in_University_Endowment)},
              p \in {Undefined, Hq(Str(in_NY), Undefined, Undefined)},
              r \in {Undefined, Str(in_France)},
              s \in {Undefined, Arr(<<Str(lit_empty)>>), Arr(Prefix(ServicePool, 3))},
              f \in {Undefined, Arr(<<Null>>), Arr(Prefix(FundPool, 1))}}
    \cup AbsentProfiles
    \cup {EmptyProfile}

(***************************************************************************)
(* buildAbout(opts), popup.js:263-305                                      *)
(***************************************************************************)
\* line 265: (opts.firmName || "").trim() || "The firm"
resolveFirmName(o) ==
    LET n == callTrim(Or(o.firmName, Str(lit_empty)))
    IN  IF n = Throw THEN Throw ELSE Or(n, Str(lit_The_firm))

\* line 266: (opts.firmTypeRaw || "").trim()
resolveFirmTypeRaw(o) == callTrim(Or(o.firmTypeRaw, Str(lit_empty)))

\* the article taken from the normalized type
resolveArticle_fromNormalized(raw, normalized) == chooseArticle(normalized)

\* line 268: chooseArticle(firmTypeRaw || firmType)
resolveArticle(raw, normalized) == chooseArticle(Or(raw, normalized))

\* line 270: chooseLocation(opts.hq_parsed || {}, opts.hq_raw || "")
resolveLocation(o) ==
    chooseLocation(Or(o.hq_parsed, EmptyObject), Or(o.hq_raw, Str(lit_empty)))

\* a non-list value taken as a list of that one value
asList_wrapping(x) ==
    IF IsArray(x) THEN x
    ELSE IF Truthy(x) THEN Arr(<<x>>)
    ELSE Arr(<<>>)

\* lines 274-275: Array.isArray(x) ? x : []
asList(x) == IF IsArray(x) THEN x ELSE Arr(<<>>)

\* the services joined as the funds are, with "and" before the last item
buildServicesClause_oxford(servicesIn) ==
    IF Len(servicesIn.items) = 0 THEN lit_services_placeholder
    ELSE lit_services_prefix
             \o joinWithOxford(mapSeq(pickItems(servicesIn, ServiceLimit), formatService))
             \o lit_comma_and_more

\* lines 278-285
buildServicesClause(servicesIn) ==
    IF Len(servicesIn.items) = 0 THEN lit_services_placeholder
    ELSE LET chosen == mapSeq(pickItems(servicesIn, ServiceLimit), formatService)
             joined == join(chosen, lit_comma_sp)
         IN  lit_services_prefix \o joined \o lit_comma_and_more

\* lines 288-296
buildFundClause(fundsIn) ==
    IF Len(fundsIn.items) = 0 THEN lit_funds_placeholder
    ELSE LET chosenFunds == mapSeq(pickItems(fundsIn, FundLimit), formatFund)
             joinedFunds == joinWithOxford(chosenFunds)
             verb == IF Len(chosenFunds) = 1 THEN lit_is ELSE lit_are
         IN  lit_The_fund \o (IF Len(chosenFunds) = 1 THEN lit_type ELSE lit_types)
                 \o lit_advised_by \o verb \o lit_sp \o joinedFunds \o lit_among_others

\* line 298
locationPart(primary, country) ==
    IF Truthy(primary) THEN trim(render(primary) \o lit_comma_sp \o render(country))
    ELSE IF Truthy(country) THEN render(country)
    ELSE lit_unknown_location

\* line 300
firstSentence(name, art, type, location) ==
    name \o lit_sp_is_sp \o art \o lit_sp \o type \o lit_headquartered \o location
         \o lit_period

\* the repair appending " and more." to every clause
servicesSentence_always(clause) == clause \o lit_sp_and_more

\* lines 301-302: the punctuation repair
servicesSentence(clause) ==
    IF endsWith(clause, lit_period) THEN clause
    ELSE IF endsWith(clause, lit_comma) THEN clause \o lit_sp_and_more
    ELSE clause \o lit_period

\* the sentences put together in another order
assemble_fundsFirst(first, services, funds) ==
    first \o lit_sp \o funds \o lit_sp \o services

\* line 303
assemble(first, services, funds) == first \o lit_sp \o services \o lit_sp \o funds

(***************************************************************************)
(* Bounds and initial state of the three-button popup (content.js:196-605) *)
(***************************************************************************)
MaxOffices == 2     \* alternate office blocks a page can hold
MaxRuns == 1        \* activations of handleRunEnrichment awaiting at one time

\* Scraped data, and what is computed from it, carries the scrape it comes
\* from: "current" for the scrape now held in hqSource, "earlier" otherwise.
\* a slot of runs with no activation in it
NoRun == [pc |-> "off", from |-> "none", offices |-> <<>>, i |-> 0]

\* a step's effect outside the popup state: an alert, a request to the
\* backend (office -1 is the HQ), a script executed in the page, or none
Effect(kind, r, office) == [kind |-> kind, run |-> r, office |-> office]
NoEffect == Effect("none", 0, 0)

\* content.js:206-209 and the status line of DOMContentLoaded (line 604)
PopupInit ==
    /\ hqSource = Null
    /\ hqEnriched = Null
    /\ altSources = <<>>
    /\ altEnriched = <<>>
    /\ status = "Popup loaded. Ready."
    /\ scrapePending = FALSE
    /\ applyPending = FALSE
    /\ runs = [r \in 1..MaxRuns |-> NoRun]
    /\ event = NoEffect

(***************************************************************************)
(* Initial state of the one-button popup (popup.js:166-545)                *)
(***************************************************************************)
\* a slot of enrichRuns with no activation in it
NoEnrich ==
    [pc |-> "off", scraped |-> FALSE, answered |-> FALSE, json |-> Null, wrote |-> <<>>]

\* the fields of the page form, all empty
EmptyPage ==
    [phone |-> Str(lit_empty), fax |-> Str(lit_empty), currency |-> Str(lit_empty),
     about |-> Str(lit_empty)]

EnrichInit ==
    /\ enrichRuns = [r \in 1..MaxRuns |-> NoEnrich]
    /\ enrichStatus = "none"
    /\ page = EmptyPage

\* Initial state of the result-box popup

\* a status message in the result box, as opposed to the text of a JSON value
StatusText(s) == [text |-> "status", v |-> s]

\* a slot of handlers with no activation in it
Idle == [fn |-> "none"]

\* no answer has arrived yet
NoData == [t |-> "none"]

\* the last step was neither a click on Apply nor a message to the tab
NoBoxEvent == [kind |-> "none"]

BoxInit ==
    /\ resultBox = StatusText("")
    /\ hasInput = FALSE
    /\ handlers = [r \in 1..MaxRuns |-> Idle]
    /\ lastData = NoData
    /\ boxEvent = NoBoxEvent

\* Initial state of the floating-panel content script: no panel, no
\* request, an empty form
PanelInit ==
    /\ panels = <<>>
    /\ inFlight = 0
    /\ form = [hq_country |-> Str(lit_empty), phone |-> Str(lit_empty),
               firm_currency |-> Str(lit_empty)]
    /\ panelEvent = "none"

Unset == Undefined      \* a local not yet assigned

Init ==
    /\ pc = "idle"
    /\ opts = Unset
    /\ firmName = Unset
    /\ firmTypeRaw = Unset
    /\ firmType = Unset
    /\ article = Unset
    /\ loc = Unset
    /\ servicesClause = Unset
    /\ fundClause = Unset
    /\ about = Unset
    /\ fn = Unset
    /\ ret = Unset
    /\ PopupInit
    /\ EnrichInit
    /\ BoxInit
    /\ PanelInit

\* the popup calls buildAbout(aboutOpts)
Call ==
    /\ pc = "idle"
    /\ \E o \in Profiles : opts' = o
    /\ pc' = "L265"
    /\ UNCHANGED <<firmName, firmTypeRaw, firmType, article, loc, servicesClause,
                   fundClause, about>>
    /\ UNCHANGED helperVars
    /\ UNCHANGED otherVars

\* lines 265-268
ResolveIdentity ==
    /\ pc = "L265"
    /\ LET n  == resolveFirmName(opts)
           r  == resolveFirmTypeRaw(opts)
           ft == IF r = Throw THEN Throw ELSE normalizeFirmTypeLower(r)
           a  == IF ft = Throw THEN Throw ELSE resolveArticle(r, ft)
       IN  IF Throw \in {n, r, ft, a}
           THEN /\ pc' = "threw"
                /\ UNCHANGED <<firmName, firmTypeRaw, firmType, article>>
           ELSE /\ pc' = "L270"
                /\ firmName' = n
                /\ firmTypeRaw' = r
                /\ firmType' = ft
                /\ article' = a
    /\ UNCHANGED <<opts, loc, servicesClause, fundClause, about>>
    /\ UNCHANGED helperVars
    /\ UNCHANGED otherVars

\* lines 270-272
Locate ==
    /\ pc = "L270"
    /\ LET l == resolveLocation(opts)
       IN  IF l = Throw
           THEN pc' = "threw" /\ UNCHANGED loc
           ELSE pc' = "L274" /\ loc' = l
    /\ UNCHANGED <<opts, firmName, firmTypeRaw, firmType, article, servicesClause,
                   fundClause, about>>
    /\ UNCHANGED helperVars
    /\ UNCHANGED otherVars

\* the clauses built by cutting the lists of the argument in place
BuildClauses_truncating ==
    /\ pc = "L274"
    /\ servicesClause' = Str(buildServicesClause(asList(opts.servicesArr)))
    /\ fundClause' = Str(buildFundClause(asList(opts.fundsArr)))
    /\ pc' = "L298"
    /\ opts' = [opts EXCEPT
                   !.servicesArr = IF IsArray(@) THEN Arr(sliceTo(@.items, ServiceLimit)) ELSE @,
                   !.fundsArr = IF IsArray(@) THEN Arr(sliceTo(@.items, FundLimit)) ELSE @]
    /\ UNCHANGED <<firmName, firmTypeRaw, firmType, article, loc, about>>
    /\ UNCHANGED helperVars
    /\ UNCHANGED otherVars

\* lines 274-296
BuildClauses ==
    /\ pc = "L274"
    /\ servicesClause' = Str(buildServicesClause(asList(opts.servicesArr)))
    /\ fundClause' = Str(buildFundClause(asList(opts.fundsArr)))
    /\ pc' = "L298"
    /\ UNCHANGED <<opts, firmName, firmTypeRaw, firmType, article, loc, about>>
    /\ UNCHANGED helperVars
    /\ UNCHANGED otherVars

\* lines 298-304
Assemble ==
    /\ pc = "L298"
    /\ about' = Str(assemble(
                     firstSentence(firmName.v, article.v, firmType.v,
                                   locationPart(loc.primary, Or(loc.country, Str(lit_empty)))),
                     servicesSentence(servicesClause.v),
                     fundClause.v))
    /\ pc' = "done"
    /\ UNCHANGED <<opts, firmName, firmTypeRaw, firmType, article, loc, servicesClause,
                   fundClause>>
    /\ UNCHANGED helperVars
    /\ UNCHANGED otherVars

\* the call is over (returned or threw); the popup is ready for the next click
Return ==
    /\ pc \in {"done", "threw", "helper"}
    /\ pc' = "idle"
    /\ opts' = Unset
    /\ firmName' = Unset
    /\ firmTypeRaw' = Unset
    /\ firmType' = Unset
    /\ article' = Unset
    /\ loc' = Unset
    /\ servicesClause' = Unset
    /\ fundClause' = Unset
    /\ about' = Unset
    /\ fn' = Unset
    /\ ret' = Unset
    /\ UNCHANGED otherVars

\* joinWithOxford(list) applied on its own
ApplyJoinWithOxford ==
    /\ pc = "idle"
    /\ \E list \in JoinInputs :
           /\ fn' = [name |-> "joinWithOxford", args |-> <<list>>]
           /\ ret' = joinWithOxford(list)
    /\ pc' = "helper"
    /\ UNCHANGED callVars
    /\ UNCHANGED otherVars

\* pickItems(arr, n) applied on its own
ApplyPickItems ==
    /\ pc = "idle"
    /\ \E arr \in PickInputs, n \in 0..MaxPick :
           /\ fn' = [name |-> "pickItems", args |-> <<arr, n>>]
           /\ ret' = pickItems(arr, n)
    /\ pc' = "helper"
    /\ UNCHANGED callVars
    /\ UNCHANGED otherVars

\* sentenceCase(s) applied on its own
ApplySentenceCase ==
    /\ pc = "idle"
    /\ \E s \in SentenceInputs :
           /\ fn' = [name |-> "sentenceCase", args |-> <<s>>]
           /\ ret' = sentenceCase(s)
    /\ pc' = "helper"
    /\ UNCHANGED callVars
    /\ UNCHANGED otherVars

Next ==
    \/ Call
    \/ ApplyJoinWithOxford
    \/ ApplyPickItems
    \/ ApplySentenceCase
    \/ ResolveIdentity
    \/ Locate
    \/ BuildClauses
    \/ Assemble
    \/ Return

Spec == Init /\ [][Next]_vars
(***************************************************************************)
(* Texts the specification quotes                                          *)
(***************************************************************************)
\* "Acme Capital is a private equity firm headquartered in NY, USA. It provides services including buyout, venture capital, and more. The fund types advised by the firm are CLO and real estate, among others."
exp_scenario_about ==
    <<"A", "c", "m", "e", " ", "C", "a", "p", "i", "t", "a", "l", " ", "i", "s", " ", "a", " ", "p", "r", "i", "v", "a", "t", "e", " ", "e", "q", "u", "i", "t", "y", " ", "f", "i", "r", "m", " ", "h", "e", "a", "d", "q", "u", "a", "r", "t", "e", "r", "e", "d", " ", "i", "n", " ", "N", "Y", ",", " ", "U", "S", "A", ".", " ", "I", "t", " ", "p", "r", "o", "v", "i", "d", "e", "s", " ", "s", "e", "r", "v", "i", "c", "e", "s", " ", "i", "n", "c", "l", "u", "d", "i", "n", "g", " ", "b", "u", "y", "o", "u", "t", ",", " ", "v", "e", "n", "t", "u", "r", "e", " ", "c", "a", "p", "i", "t", "a", "l", ",", " ", "a", "n", "d", " ", "m", "o", "r", "e", ".", " ", "T", "h", "e", " ", "f", "u", "n", "d", " ", "t", "y", "p", "e", "s", " ", "a", "d", "v", "i", "s", "e", "d", " ", "b", "y", " ", "t", "h", "e", " ", "f", "i", "r", "m", " ", "a", "r", "e", " ", "C", "L", "O", " ", "a", "n", "d", " ", "r", "e", "a", "l", " ", "e", "s", "t", "a", "t", "e", ",", " ", "a", "m", "o", "n", "g", " ", "o", "t", "h", "e", "r", "s", ".">>
\* "It provides services including buyout, venture capital, fund admin, audit, tax, and more."
exp_seven_services ==
    <<"I", "t", " ", "p", "r", "o", "v", "i", "d", "e", "s", " ", "s", "e", "r", "v", "i", "c", "e", "s", " ", "i", "n", "c", "l", "u", "d", "i", "n", "g", " ", "b", "u", "y", "o", "u", "t", ",", " ", "v", "e", "n", "t", "u", "r", "e", " ", "c", "a", "p", "i", "t", "a", "l", ",", " ", "f", "u", "n", "d", " ", "a", "d", "m", "i", "n", ",", " ", "a", "u", "d", "i", "t", ",", " ", "t", "a", "x", ",", " ", "a", "n", "d", " ", "m", "o", "r", "e", ".">>
\* "It provides a wide range of financial services, and more."
exp_empty_services ==
    <<"I", "t", " ", "p", "r", "o", "v", "i", "d", "e", "s", " ", "a", " ", "w", "i", "d", "e", " ", "r", "a", "n", "g", "e", " ", "o", "f", " ", "f", "i", "n", "a", "n", "c", "i", "a", "l", " ", "s", "e", "r", "v", "i", "c", "e", "s", ",", " ", "a", "n", "d", " ", "m", "o", "r", "e", ".">>
\* "The firm advises various types of funds."
exp_empty_funds ==
    <<"T", "h", "e", " ", "f", "i", "r", "m", " ", "a", "d", "v", "i", "s", "e", "s", " ", "v", "a", "r", "i", "o", "u", "s", " ", "t", "y", "p", "e", "s", " ", "o", "f", " ", "f", "u", "n", "d", "s", ".">>
\* "undefined"
exp_undefined ==
    <<"u", "n", "d", "e", "f", "i", "n", "e", "d">>
\* "null"
exp_null ==
    <<"n", "u", "l", "l">>
\* "The firm is "
exp_The_firm_is ==
    <<"T", "h", "e", " ", "f", "i", "r", "m", " ", "i", "s", " ">>
\* "is a firm headquartered in "
exp_is_a_firm ==
    <<"i", "s", " ", "a", " ", "f", "i", "r", "m", " ", "h", "e", "a", "d", "q", "u", "a", "r", "t", "e", "r", "e", "d", " ", "i", "n", " ">>
\* "headquartered in an unknown location."
exp_unknown_location ==
    <<"h", "e", "a", "d", "q", "u", "a", "r", "t", "e", "r", "e", "d", " ", "i", "n", " ", "a", "n", " ", "u", "n", "k", "n", "o", "w", "n", " ", "l", "o", "c", "a", "t", "i", "o", "n", ".">>
\* "It provides services including tax, and more."
exp_tax_only ==
    <<"I", "t", " ", "p", "r", "o", "v", "i", "d", "e", "s", " ", "s", "e", "r", "v", "i", "c", "e", "s", " ", "i", "n", "c", "l", "u", "d", "i", "n", "g", " ", "t", "a", "x", ",", " ", "a", "n", "d", " ", "m", "o", "r", "e", ".">>
\* "The fund type advised by the firm is CLO, among others."
exp_CLO_only ==
    <<"T", "h", "e", " ", "f", "u", "n", "d", " ", "t", "y", "p", "e", " ", "a", "d", "v", "i", "s", "e", "d", " ", "b", "y", " ", "t", "h", "e", " ", "f", "i", "r", "m", " ", "i", "s", " ", "C", "L", "O", ",", " ", "a", "m", "o", "n", "g", " ", "o", "t", "h", "e", "r", "s", ".">>
\* "The firm is a firm headquartered in an unknown location. It provides services including tax, and more. The fund type advised by the firm is CLO, among others."
exp_all_absent ==
    <<"T", "h", "e", " ", "f", "i", "r", "m", " ", "i", "s", " ", "a", " ", "f", "i", "r", "m", " ", "h", "e", "a", "d", "q", "u", "a", "r", "t", "e", "r", "e", "d", " ", "i", "n", " ", "a", "n", " ", "u", "n", "k", "n", "o", "w", "n", " ", "l", "o", "c", "a", "t", "i", "o", "n", ".", " ", "I", "t", " ", "p", "r", "o", "v", "i", "d", "e", "s", " ", "s", "e", "r", "v", "i", "c", "e", "s", " ", "i", "n", "c", "l", "u", "d", "i", "n", "g", " ", "t", "a", "x", ",", " ", "a", "n", "d", " ", "m", "o", "r", "e", ".", " ", "T", "h", "e", " ", "f", "u", "n", "d", " ", "t", "y", "p", "e", " ", "a", "d", "v", "i", "s", "e", "d", " ", "b", "y", " ", "t", "h", "e", " ", "f", "i", "r", "m", " ", "i", "s", " ", "C", "L", "O", ",", " ", "a", "m", "o", "n", "g", " ", "o", "t", "h", "e", "r", "s", ".">>
\* "Oak Rd"
exp_Oak_Rd ==
    <<"O", "a", "k", " ", "R", "d">>
\* " and more."
exp_and_more_tail ==
    <<" ", "a", "n", "d", " ", "m", "o", "r", "e", ".">>
\* "university firm"
exp_university_firm ==
    <<"u", "n", "i", "v", "e", "r", "s", "i", "t", "y", " ", "f", "i", "r", "m">>

\* "The fund type advised by the firm is "
exp_fund_type_is ==
    <<"T", "h", "e", " ", "f", "u", "n", "d", " ", "t", "y", "p", "e", " ", "a", "d", "v", "i", "s", "e", "d", " ", "b", "y", " ", "t", "h", "e", " ", "f", "i", "r", "m", " ", "i", "s", " ">>
\* "The fund types advised by the firm are "
exp_fund_types_are ==
    <<"T", "h", "e", " ", "f", "u", "n", "d", " ", "t", "y", "p", "e", "s", " ", "a", "d", "v", "i", "s", "e", "d", " ", "b", "y", " ", "t", "h", "e", " ", "f", "i", "r", "m", " ", "a", "r", "e", " ">>
\* "The fund type advised by the firm is CLO, among others."
exp_one_fund ==
    <<"T", "h", "e", " ", "f", "u", "n", "d", " ", "t", "y", "p", "e", " ", "a", "d", "v", "i", "s", "e", "d", " ", "b", "y", " ", "t", "h", "e", " ", "f", "i", "r", "m", " ", "i", "s", " ", "C", "L", "O", ",", " ", "a", "m", "o", "n", "g", " ", "o", "t", "h", "e", "r", "s", ".">>

\* "and "
exp_and_sp ==
    <<"a", "n", "d", " ">>
\* "CLO, real estate, and PE"
exp_three_joined ==
    <<"C", "L", "O", ",", " ", "r", "e", "a", "l", " ", "e", "s", "t", "a", "t", "e", ",", " ", "a", "n", "d", " ", "P", "E">>

\* "buyout, venture capital, fund admin"
exp_three_services ==
    <<"b", "u", "y", "o", "u", "t", ",", " ", "v", "e", "n", "t", "u", "r", "e", " ", "c", "a", "p", "i", "t", "a", "l", ",", " ", "f", "u", "n", "d", " ", "a", "d", "m", "i", "n">>

(***************************************************************************)
(* Vocabulary of the properties.  These definitions restate what the       *)
(* specification says; none of them is used by the actions above.          *)
(***************************************************************************)
Returned == pc = "done"
Located == pc \in {"L274", "L298", "done"}
Identified == pc \in {"L270", "L274", "L298", "done"}
ClausesBuilt == pc \in {"L298", "done"}

startsWith(s, prefix) == Len(prefix) <= Len(s) /\ SubSeq(s, 1, Len(prefix)) = prefix

CountChar(s, c) == Cardinality({i \in 1..Len(s) : s[i] = c})

\* a field that holds a non-blank text
HasText(x) == x.t = "string" /\ trim(x.v) # <<>>

\* the non-empty comma-separated tokens of an address, trimmed
RECURSIVE TokensFrom(_, _)
TokensFrom(s, start) ==
    IF start > Len(s) + 1 THEN <<>>
    ELSE LET stop == IF \E i \in start..Len(s) : s[i] = ","
                     THEN MinOf({i \in start..Len(s) : s[i] = ","})
                     ELSE Len(s) + 1
             tok == trim(SubSeq(s, start, stop - 1))
         IN  (IF tok = <<>> THEN <<>> ELSE <<tok>>) \o TokensFrom(s, stop + 1)

AddressTokens(x) == IF x.t = "string" THEN TokensFrom(x.v, 1) ELSE <<>>

\* the structured location of the call offers neither a state nor a city
NoStructuredLocality ==
    \/ opts.hq_parsed.t # "object"
    \/ ~HasText(opts.hq_parsed.state) /\ ~HasText(opts.hq_parsed.city)

\* the first sentence the call must produce for a given location text
IdentityWith(location) ==
    firmName.v \o lit_sp_is_sp \o article.v \o lit_sp \o firmType.v
        \o lit_headquartered \o location \o lit_period

\* the name the identity sentence must carry
ExpectedName == IF HasText(opts.firmName) THEN trim(opts.firmName.v) ELSE lit_The_firm

\* the location text of the running call
LocationText == locationPart(loc.primary, Or(loc.country, Str(lit_empty)))

\* the location text as the specification words it
ClaimedLocationText ==
    LET p == loc.primary
        c == Or(loc.country, Str(lit_empty))
    IN  IF Truthy(p)
        THEN (IF Truthy(c) THEN p.v \o lit_comma_sp \o c.v ELSE p.v)
        ELSE IF Truthy(c) THEN c.v
        ELSE lit_unknown_location

\* the first whitespace-delimited token of a phrase
FirstWord(s) ==
    LET t == trim(s)
        ws == {i \in 1..Len(t) : t[i] \in WhiteSpace}
    IN  IF ws = {} THEN t ELSE SubSeq(t, 1, MinOf(ws) - 1)

\* the article as the specification words it: decided by the first word
ClaimedArticle(phrase) ==
    LET w == toLowerCase(FirstWord(phrase))
    IN  IF w \in {lit_university, lit_unicorn, lit_use, lit_user, lit_european} THEN lit_a
        ELSE IF w \in {lit_hour, lit_honest, lit_honour} THEN lit_an
        ELSE IF w # <<>> /\ w[1] \in {"a", "e", "i", "o", "u"} THEN lit_an
        ELSE lit_a

\* the text ends with the separate word "firm"
EndsWithWordFirm(s) ==
    \/ s = lit_firm
    \/ endsWith(s, lit_firm) /\ s[Len(s) - Len(lit_firm)] \in WhiteSpace

\* the lower-case firm type as the specification words it
ClaimedFirmType(x) ==
    IF ~HasText(x) THEN lit_firm
    ELSE LET s == toLowerCase(trim(x.v))
         IN  IF s = lit_law_firm THEN lit_law_firm
             ELSE IF EndsWithWordFirm(s) THEN s
             ELSE s \o lit_sp_firm

\* the trimmed string form of a list element; empty for a null or absent one
ItemText(x) ==
    CASE x.t = "string" -> trim(x.v)
      [] x.t = "number" -> (IF x.digits = <<"0">> THEN <<>> ELSE x.digits)
      [] OTHER -> <<>>

\* the first n non-blank item texts of a list, in their order
FirstNonBlank(items, n) ==
    LET texts == [i \in DOMAIN items |-> ItemText(items[i])]
        kept == SelectSeq(texts, LAMBDA s : s # <<>>)
    IN  SubSeq(kept, 1, IF Len(kept) < n THEN Len(kept) ELSE n)

\* the services sentence the specification asks for, for a list
ExpectedServicesSentence(items) ==
    IF Len(items) = 0 THEN exp_empty_services
    ELSE LET used == FirstNonBlank(items, ServiceLimit)
         IN  lit_services_prefix
                 \o join([i \in DOMAIN used |-> toLowerCase(used[i])], lit_comma_sp)
                 \o lit_comma_and_more

(***************************************************************************)
(* Properties                                                              *)
(***************************************************************************)

\* C1: buildAbout is total: for every input it returns, without throwing, a
\* non-empty string that contains exactly three periods.
C1_Total ==
    /\ pc # "threw"
    /\ Returned => (about.v # <<>> /\ CountChar(about.v, ".") = 3)

\* C2: the returned text is the identity sentence (with the trimmed firm name,
\* or "The firm" for an absent or blank name), the services sentence and the
\* funds sentence, in that order, separated by exactly one space, none of them
\* empty.
C2_ThreeSentences ==
    Returned =>
        LET first == ExpectedName \o lit_sp_is_sp \o article.v \o lit_sp \o firmType.v
                         \o lit_headquartered \o LocationText \o lit_period
            second == servicesSentence(servicesClause.v)
            third == fundClause.v
        IN  /\ about.v = first \o lit_sp \o second \o lit_sp \o third
            /\ second # <<>> /\ endsWith(second, lit_period)
            /\ third # <<>> /\ endsWith(third, lit_period)

\* the end-to-end scenario returns the paragraph the specification quotes
C2_Witness == Returned /\ opts = Scenario /\ about = Str(exp_scenario_about)

\* C3: for every structured location, the primary locality is its state when
\* non-empty, otherwise its city, and the country of the result is its country
\* field (the raw address is not consulted for it).
C3_StructuredLocationWins ==
    (Located /\ opts.hq_parsed.t = "object") =>
        LET p == opts.hq_parsed
        IN  /\ HasText(p.state) => loc.primary = Str(trim(p.state.v))
            /\ (~HasText(p.state) /\ HasText(p.city)) => loc.primary = Str(trim(p.city.v))
            /\ HasText(p.country) => loc.country = Str(trim(p.country.v))

\* C4: with no structured state or city, and a raw address of at least two
\* non-empty tokens of which a non-final one has no digit, the country is the
\* last token and the primary locality is the last non-final token without a
\* digit.
C4_RawAddressPrimary ==
    (Located /\ NoStructuredLocality) =>
        LET toks == AddressTokens(opts.hq_raw)
            clean == {i \in 1..(Len(toks) - 1) : ~hasDigit(toks[i])}
        IN  (Len(toks) >= 2 /\ clean # {}) =>
                /\ loc.country = Str(toks[Len(toks)])
                /\ loc.primary = Str(toks[MaxOf(clean)])

\* "1 Main St, Suite 2, New York, NY, USA" gives primary "NY", country "USA"
C4_Witness ==
    /\ Located
    /\ NoStructuredLocality
    /\ opts.hq_raw = Str(in_example_address)
    /\ loc = Loc(Str(in_NY), Str(in_USA))

\* C5: the location in the identity sentence is "{primary}, {country}" when
\* both are present, the primary alone (no dangling comma) when the country is
\* empty, the country alone when only it is present, and "an unknown
\* location" when neither is.
C5_LocationString ==
    Returned => startsWith(about.v, IdentityWith(ClaimedLocationText))

\* C6: with no structured location, a raw address of exactly one non-empty
\* token gives primary null, country that token and location text that token;
\* one with no non-empty token gives null, null and "an unknown location".
C6_FewTokens ==
    (Located /\ NoStructuredLocality) =>
        LET toks == AddressTokens(opts.hq_raw)
        IN  /\ Len(toks) = 1 =>
                /\ loc = Loc(Null, Str(toks[1]))
                /\ Returned => startsWith(about.v, IdentityWith(toks[1]))
            /\ Len(toks) = 0 =>
                /\ loc = Loc(Null, Null)
                /\ Returned => startsWith(about.v, IdentityWith(lit_unknown_location))

\* the raw address "France" is located in France
C6_Witness ==
    /\ Returned
    /\ NoStructuredLocality
    /\ opts.hq_raw = Str(in_France)
    /\ loc = Loc(Null, Str(in_France))
    /\ startsWith(about.v, IdentityWith(in_France))

\* C7: chooseArticle decides from the first whitespace-delimited token of the
\* phrase, lower-cased: the exception lists first, then the first letter.
C7_ArticleFromFirstWord ==
    (Identified /\ HasText(opts.firmTypeRaw)) =>
        article = Str(ClaimedArticle(opts.firmTypeRaw.v))

\* C8: the article of the identity sentence is chosen from the raw firm type,
\* not from the normalized one: chooseArticle(raw type) for a non-empty raw
\* type, "a" for an absent or blank one.
C8_ArticleFromRawType ==
    Identified =>
        article = IF HasText(opts.firmTypeRaw)
                  THEN chooseArticle(Str(trim(opts.firmTypeRaw.v)))
                  ELSE Str(lit_a)

\* "university" becomes "a university firm": the appended word does not count
C8_Witness ==
    /\ Returned
    /\ opts.firmTypeRaw = Str(in_university)
    /\ firmType = Str(exp_university_firm)
    /\ article = Str(lit_a)

\* C9: the normalizer gives "firm" for an absent or blank type, "law firm" for
\* any case variant of it, and otherwise appends "firm" exactly when the text
\* does not already end with the separate word "firm".
C9_FirmTypeNormalized ==
    Identified => firmType = Str(ClaimedFirmType(opts.firmTypeRaw))

\* C10: a non-empty services list yields "It provides services including
\* {joined}, and more." with at most the first 5 non-blank items, trimmed and
\* lower-cased, in order, joined by ", " only; an empty list yields the
\* placeholder completed by the punctuation repair.
C10_ServicesSentence ==
    (ClausesBuilt /\ IsArray(opts.servicesArr)) =>
        LET items == opts.servicesArr.items
            expected == ExpectedServicesSentence(items)
        IN  /\ Len(items) > 0 => servicesClause = Str(expected)
            /\ Len(items) = 0 => servicesClause = Str(lit_services_placeholder)
            /\ Returned =>
                   about.v = IdentityWith(LocationText) \o lit_sp \o expected
                                 \o lit_sp \o fundClause.v

\* seven services: the first five are used
C10_Witness ==
    /\ Returned
    /\ opts.servicesArr = Arr(Prefix(ServicePool, 7))
    /\ servicesClause = Str(exp_seven_services)

\* an item the funds sentence keeps verbatim: 2 to 4 upper-case letters
KeptVerbatim(s) ==
    /\ Len(s) >= 2
    /\ Len(s) <= 4
    /\ \A i \in 1..Len(s) : \E k \in 1..Len(UpperLetters) : UpperLetters[k] = s[i]

\* the funds sentence the specification asks for, for a list with used items
ExpectedFundSentence(items) ==
    LET used == FirstNonBlank(items, FundLimit)
        shown == [i \in DOMAIN used |->
                     IF KeptVerbatim(used[i]) THEN used[i] ELSE toLowerCase(used[i])]
    IN  (IF Len(used) = 1 THEN exp_fund_type_is ELSE exp_fund_types_are)
            \o joinWithOxford(shown) \o lit_among_others

\* C11: a non-empty funds list yields "The fund type(s) advised by the firm
\* is/are {joined}, among others." with at most the first 4 non-blank items in
\* order, 2-4 letter upper-case items verbatim and the others lower-cased,
\* joined by joinWithOxford, singular for exactly 1 used item and plural for 2
\* or more; an empty list yields "The firm advises various types of funds."
C11_FundsSentence ==
    (ClausesBuilt /\ IsArray(opts.fundsArr)) =>
        LET items == opts.fundsArr.items
            used == FirstNonBlank(items, FundLimit)
        IN  /\ Len(items) = 0 => fundClause = Str(lit_funds_placeholder)
            /\ (Len(items) > 0 /\ Len(used) >= 1) =>
                   fundClause = Str(ExpectedFundSentence(items))
            /\ Returned => endsWith(about.v, lit_period \o lit_sp \o fundClause.v)

\* the single fund "CLO" keeps its casing and takes the singular
C11_Witness ==
    /\ Returned
    /\ opts.fundsArr = Arr(<<Str(in_CLO)>>)
    /\ fundClause = Str(exp_one_fund)

\* a helper applied on its own has returned
Applied(name) == pc = "helper" /\ fn.name = name

\* the items from the i-th on, each followed by ", ", with "and " before the last
RECURSIVE SerialList(_, _)
SerialList(list, i) ==
    IF i = Len(list) THEN exp_and_sp \o list[i]
    ELSE list[i] \o lit_comma_sp \o SerialList(list, i + 1)

\* C12: joinWithOxford gives "" for no item, the item for one, "A and B" for
\* two, and for three or more all items separated by ", " with "and " before
\* the last; the comma before "and" appears only for three or more items.
C12_OxfordJoin ==
    Applied("joinWithOxford") =>
        LET list == fn.args[1]
        IN  /\ Len(list) = 0 => ret = <<>>
            /\ Len(list) = 1 => ret = list[1]
            /\ Len(list) = 2 => ret = list[1] \o lit_sp_and_sp \o list[2]
            /\ Len(list) >= 3 => ret = SerialList(list, 1)

\* three items: "A, B, and C"
C12_Witness ==
    /\ Applied("joinWithOxford")
    /\ Len(fn.args[1]) = 3
    /\ ret = exp_three_joined

\* the items the services sentence shows, as the specification words them
ShownServices ==
    LET used == FirstNonBlank(opts.servicesArr.items, ServiceLimit)
    IN  [i \in DOMAIN used |-> toLowerCase(used[i])]

\* the text between "It provides services including " and ", and more."
JoinedServices ==
    SubSeq(servicesClause.v, Len(lit_services_prefix) + 1,
           Len(servicesClause.v) - Len(lit_comma_and_more))

C14_PickItems ==
    Applied("pickItems") =>
        LET arr == fn.args[1]
            n == fn.args[2]
        IN  /\ ~IsArray(arr) => ret = <<>>
            /\ IsArray(arr) => ret = FirstNonBlank(arr.items, n)
            /\ Len(ret) <= n

\* a list with a repeated item keeps both copies, in order
C14_Witness ==
    /\ Applied("pickItems")
    /\ fn.args[1] = Arr(<<Str(in_tax), Str(in_tax), Str(in_Buyout)>>)
    /\ fn.args[2] = 5
    /\ ret = <<in_tax, in_tax, in_Buyout>>

\* C15: sentenceCase is idempotent: applying it to its own result gives that
\* result again.
C15_SentenceCaseIdempotent ==
    Applied("sentenceCase") => sentenceCase(Str(ret)) = ret

\* a call of buildAbout is under way or has ended
InCall == pc \in {"L265", "L270", "L274", "L298", "done", "threw"}

\* sub occurs in s
Contains(s, sub) ==
    \E i \in 0..(Len(s) - Len(sub)) : SubSeq(s, i + 1, i + Len(sub)) = sub

\* the profile is the scenario except for its two lists
ScenarioButLists ==
    /\ opts.firmName = Scenario.firmName
    /\ opts.firmTypeRaw = Scenario.firmTypeRaw
    /\ opts.hq_parsed = Scenario.hq_parsed
    /\ opts.hq_raw = Scenario.hq_raw

\* C16: a services or funds input that is not a list (absent, null, a string,
\* a number, an object) is treated as the empty list: the call does not fail
\* and the returned text holds the fixed placeholder sentence for that list.
C16_NonListAsEmpty ==
    InCall =>
        /\ (opts.servicesArr.t # "array" /\ ClausesBuilt) =>
               servicesSentence(servicesClause.v) = exp_empty_services
        /\ (opts.fundsArr.t # "array" /\ ClausesBuilt) => fundClause.v = exp_empty_funds
        /\ (opts.servicesArr.t # "array" /\ Returned) =>
               Contains(about.v, lit_sp \o exp_empty_services \o lit_sp)
        /\ (opts.fundsArr.t # "array" /\ Returned) =>
               endsWith(about.v, lit_sp \o exp_empty_funds)
        /\ ((opts.servicesArr.t # "array" \/ opts.fundsArr.t # "array") /\ ScenarioButLists) =>
               pc # "threw"

\* a string for the services and a number for the funds
C16_Witness ==
    /\ Returned
    /\ opts.servicesArr = Str(in_buyout)
    /\ opts.fundsArr = Num(in_7)
    /\ Contains(about.v, exp_empty_services \o lit_sp \o exp_empty_funds)

\* a field that is absent or null
Absent(x) == x.t \in {"undefined", "null"}

\* no field of the structured location holds a value
AbsentStructured(p) ==
    \/ Absent(p)
    \/ p.t = "object" /\ Absent(p.state) /\ Absent(p.city) /\ Absent(p.country)

\* the elements of a list value that are not absent
PresentItems(x) == SelectSeq(x.items, LAMBDA a : ~Absent(a))

\* C17: the returned text never holds the word "undefined" or "null" for an
\* absent or null field: an absent name reads "The firm", an absent type
\* "a firm", an absent location "an unknown location", and absent list
\* elements are left out.
C17_NoAbsentWords ==
    Returned =>
        /\ ~Contains(about.v, exp_undefined)
        /\ ~Contains(about.v, exp_null)
        /\ Absent(opts.firmName) => startsWith(about.v, exp_The_firm_is)
        /\ Absent(opts.firmTypeRaw) => Contains(about.v, exp_is_a_firm)
        /\ (AbsentStructured(opts.hq_parsed) /\ Absent(opts.hq_raw)) =>
               Contains(about.v, exp_unknown_location)
        /\ (opts.servicesArr.t = "array" /\ PresentItems(opts.servicesArr) = <<Str(in_tax)>>) =>
               Contains(about.v, lit_sp \o exp_tax_only \o lit_sp)
        /\ (opts.fundsArr.t = "array" /\ PresentItems(opts.fundsArr) = <<Str(in_CLO)>>) =>
               endsWith(about.v, lit_sp \o exp_CLO_only)

\* every field null, the lists with absent and null elements
C17_Witness ==
    /\ Returned
    /\ opts = Opts(Null, Null, Hq(Null, Null, Null), Null,
                   Arr(<<Null, Undefined, Str(in_tax)>>),
                   Arr(<<Undefined, Str(in_CLO), Null>>))
    /\ about = Str(exp_all_absent)

\* the text buildAbout computes from a record o alone
AboutOf(o) ==
    LET n  == resolveFirmName(o)
        r  == resolveFirmTypeRaw(o)
        ft == normalizeFirmTypeLower(r)
        a  == resolveArticle(r, ft)
        l  == resolveLocation(o)
    IN  assemble(firstSentence(n.v, a.v, ft.v,
                               locationPart(l.primary, Or(l.country, Str(lit_empty)))),
                 servicesSentence(buildServicesClause(asList(o.servicesArr))),
                 buildFundClause(asList(o.fundsArr)))

\* C18: buildAbout is a pure function of its argument: while a call runs, the
\* record given to it and its two lists stay as they were and nothing outside
\* the locals of the call changes, and the text returned depends on the
\* record alone, whatever calls came before.
C18_Pure ==
    /\ [][(InCall /\ pc' # "idle") => (opts' = opts /\ UNCHANGED helperVars)]_vars
    /\ [](Returned => about = Str(AboutOf(opts)))

\* a call with more items than are shown has returned and its lists are whole
C18_Witness ==
    /\ Returned
    /\ opts.servicesArr = Arr(Prefix(ServicePool, MaxServices))
    /\ opts.fundsArr = Arr(Prefix(FundPool, MaxFunds))
    /\ Len(opts.servicesArr.items) > ServiceLimit
    /\ Len(opts.fundsArr.items) > FundLimit

RECURSIVE WordsFrom(_, _)
\* the space-separated sub-tokens of s from position start on
WordsFrom(s, start) ==
    IF start > Len(s) THEN <<>>
    ELSE LET stop == IF \E i \in start..Len(s) : s[i] = " "
                     THEN MinOf({i \in start..Len(s) : s[i] = " "})
                     ELSE Len(s) + 1
             word == SubSeq(s, start, stop - 1)
         IN  (IF word = <<>> THEN <<>> ELSE <<word>>) \o WordsFrom(s, stop + 1)

RECURSIVE Spaced(_)
\* the words with one space between neighbours
Spaced(words) ==
    IF words = <<>> THEN <<>>
    ELSE IF Len(words) = 1 THEN words[1]
    ELSE words[1] \o <<" ">> \o Spaced(Tail(words))

\* C19: with no structured locality and a raw address of at least two tokens
\* whose non-final tokens all hold a digit, the primary locality is the
\* second-to-last token without its space-separated sub-tokens that hold a
\* digit, the rest joined by single spaces, or that whole token when all its
\* sub-tokens hold a digit; a primary locality taken from a raw address holds
\* a digit only in that last case.
C19_FallbackStripsDigits ==
    (Located /\ NoStructuredLocality) =>
        LET toks == AddressTokens(opts.hq_raw)
            fallback == Len(toks) >= 2 /\ \A i \in 1..(Len(toks) - 1) : hasDigit(toks[i])
            token == toks[Len(toks) - 1]
            kept == SelectSeq(WordsFrom(token, 1), LAMBDA w : ~hasDigit(w))
        IN  /\ (fallback /\ kept # <<>>) => loc.primary = Str(Spaced(kept))
            /\ (fallback /\ kept = <<>>) => loc.primary = Str(token)
            /\ (loc.primary.t = "string" /\ hasDigit(loc.primary.v)) => (fallback /\ kept = <<>>)

\* "12 34, 7  Oak  Rd ,USA" gives the primary "Oak Rd"
C19_Witness ==
    /\ Located
    /\ NoStructuredLocality
    /\ opts.hq_raw = Str(in_spaced_address)
    /\ loc = Loc(Str(exp_Oak_Rd), Str(in_USA))

\* the sentence a services clause must become
RepairedClause(c) ==
    IF c # <<>> /\ c[Len(c)] = "." THEN c
    ELSE IF c # <<>> /\ c[Len(c)] = "," THEN c \o exp_and_more_tail
    ELSE c \o <<".">>

\* s ends with one period that no other period precedes
EndsWithOnePeriod(s) ==
    /\ Len(s) >= 2
    /\ s[Len(s)] = "."
    /\ s[Len(s) - 1] # "."

\* C20: the services sentence of the returned text ends with exactly one
\* period: a clause ending with "." is taken as it is, a clause ending with
\* "," gets " and more." appended (the empty-list sentence reads "It provides
\* a wide range of financial services, and more."), any other clause gets
\* "." appended.
C20_OnePeriod ==
    Returned =>
        LET sentence == RepairedClause(servicesClause.v)
        IN  /\ EndsWithOnePeriod(sentence)
            /\ endsWith(about.v, <<".", " ">> \o sentence \o <<" ">> \o fundClause.v)
            /\ (opts.servicesArr.t = "array" /\ opts.servicesArr.items = <<>>) =>
                   sentence = exp_empty_services

\* the empty list: the clause ends with a comma and is completed
C20_Witness ==
    /\ Returned
    /\ opts.servicesArr = Arr(<<>>)
    /\ servicesClause.v[Len(servicesClause.v)] = ","
    /\ Contains(about.v, exp_empty_services)

\* a list value none of whose elements holds text
AllBlank(x) == x.t = "array" /\ FirstNonBlank(x.items, Len(x.items)) = <<>>

\* C21: a services or funds list whose elements are all blank, empty or null
\* is treated like the empty list and yields the placeholder sentence, so the
\* itemised form of either sentence always names at least one item.
C21_ItemisedHasItem ==
    Returned =>
        /\ AllBlank(opts.servicesArr) =>
               Contains(about.v, lit_sp \o exp_empty_services \o lit_sp)
        /\ AllBlank(opts.fundsArr) => endsWith(about.v, lit_sp \o exp_empty_funds)

(***************************************************************************)
(* The three-button popup, content.js:196-605.  Every handler runs up to   *)
(* its next await or callback in one step; a fetch and the reading of its  *)
(* body, and an executeScript and its callback, are one step each, since   *)
(* the popup state is neither read nor written between them.  One scrape   *)
(* callback and one apply callback can be due at a time.                   *)
(***************************************************************************)

\* what scrapeAllFromPage returns for a page with n alternate office blocks
\* (lines 291-332)
scrapeAllFromPage(n) ==
    [hq |-> [from |-> "current"],
     altOffices |-> IF n = 0 THEN <<>>
                    ELSE [b \in 1..n |-> [index |-> b - 1, from |-> "current"]]]

\* data of the scrape in hqSource, once another scrape takes its place
Earlier(x) == IF x = Null THEN Null ELSE [x EXCEPT !.from = "earlier"]

EarlierRun(run) ==
    IF run.pc = "off" THEN run
    ELSE [run EXCEPT !.from = "earlier",
                     !.offices = IF @ = <<>> THEN <<>>
                                 ELSE [b \in DOMAIN @ |-> Earlier(@[b])]]

\* the body of an ok answer of the backend to the payload of an office
Response(from, office) == [from |-> from, office |-> office]

\* lines 519-524: the entry pushed for an office whose request was not ok
ErrorEntry(office) == [index |-> office.index, error |-> TRUE, response |-> Null]

\* lines 527-531: the entry pushed for an office whose request was ok
ResponseEntry(office) ==
    [index |-> office.index, error |-> FALSE,
     response |-> Response(office.from, office.index)]

\* lines 406-409: the click on "Use fields from current page"
handleUseFieldsFromPage ==
    /\ ~scrapePending
    /\ status' = "Reading HQ and alternate office fields from current page..."
    /\ scrapePending' = TRUE
    /\ event' = NoEffect
    /\ UNCHANGED <<hqSource, hqEnriched, altSources, altEnriched, applyPending, runs>>
    /\ UNCHANGED restOfPopup

\* lines 409-445: the callbacks of getActiveTabId and of executeScript
scrapeCallback ==
    /\ scrapePending
    /\ scrapePending' = FALSE
    /\ \/ /\ status' = "ERROR: No active tab found."
          /\ event' = NoEffect
          /\ UNCHANGED <<hqSource, hqEnriched, altSources, altEnriched, runs>>
       \/ /\ status' = "ERROR reading from page (scripting). See DevTools console."
          /\ event' = Effect("script", 0, 0)
          /\ UNCHANGED <<hqSource, hqEnriched, altSources, altEnriched, runs>>
       \/ /\ status' = "No data returned from page."
          /\ event' = Effect("script", 0, 0)
          /\ UNCHANGED <<hqSource, hqEnriched, altSources, altEnriched, runs>>
       \/ /\ \E n \in 0..MaxOffices :
                 LET result == scrapeAllFromPage(n)
                 IN  /\ hqSource' = result.hq
                     /\ altSources' = result.altOffices
          /\ altEnriched' = <<>>
          /\ hqEnriched' = Earlier(hqEnriched)
          /\ runs' = [r \in 1..MaxRuns |-> EarlierRun(runs[r])]
          /\ status' = "HQ fields read from page"
          /\ event' = Effect("stored", 0, 0)
    /\ UNCHANGED applyPending
    /\ UNCHANGED restOfPopup

\* lines 460-486: the click on "Run Enrichment", up to the first await
handleRunEnrichment ==
    \/ /\ hqSource = Null
       /\ event' = Effect("alert", 0, 0)
       /\ UNCHANGED <<hqSource, hqEnriched, altSources, altEnriched, status,
                      scrapePending, applyPending, runs>>
       /\ UNCHANGED restOfPopup
    \/ /\ hqSource # Null
       /\ \E r \in 1..MaxRuns :
              /\ runs[r].pc = "off"
              /\ \A q \in 1..(r - 1) : runs[q].pc # "off"
              /\ runs' = [runs EXCEPT ![r] = [pc |-> "hq", from |-> hqSource.from,
                                              offices |-> <<>>, i |-> 0]]
              /\ event' = Effect("request", r, -1)
       /\ status' = "Running enrichment for HQ and alternate offices..."
       /\ UNCHANGED <<hqSource, hqEnriched, altSources, altEnriched,
                      scrapePending, applyPending>>
       /\ UNCHANGED restOfPopup

\* the answer to the HQ request, a non-ok one discarding the results held
hqResponse_clearing(r) ==
    /\ runs[r].pc = "hq"
    /\ \/ /\ status' = "Backend HQ error"
          /\ runs' = [runs EXCEPT ![r] = NoRun]
          /\ event' = Effect("hq-not-ok", r, -1)
          /\ hqEnriched' = Null
          /\ altEnriched' = <<>>
       \/ /\ status' = "ERROR: Enrichment failed"
          /\ runs' = [runs EXCEPT ![r] = NoRun]
          /\ event' = Effect("hq-thrown", r, -1)
          /\ UNCHANGED <<hqEnriched, altEnriched>>
       \/ /\ hqEnriched' = Response(runs[r].from, -1)
          /\ altEnriched' = <<>>
          /\ IF altSources = <<>>
             THEN /\ status' = "Enrichment success."
                  /\ runs' = [runs EXCEPT ![r] = NoRun]
                  /\ event' = Effect("finished", r, -1)
             ELSE /\ status' = status
                  /\ runs' = [runs EXCEPT ![r] = [pc |-> "alt", from |-> @.from,
                                                  offices |-> altSources, i |-> 1]]
                  /\ event' = Effect("request", r, altSources[1].index)
    /\ UNCHANGED <<hqSource, altSources, scrapePending, applyPending>>
    /\ UNCHANGED restOfPopup

\* lines 482-514 and 542-545: the answer to the HQ request of run r
hqResponse(r) ==
    /\ runs[r].pc = "hq"
    /\ \/ /\ status' = "Backend HQ error"
          /\ runs' = [runs EXCEPT ![r] = NoRun]
          /\ event' = Effect("hq-not-ok", r, -1)
          /\ UNCHANGED <<hqEnriched, altEnriched>>
       \/ /\ status' = "ERROR: Enrichment failed"
          /\ runs' = [runs EXCEPT ![r] = NoRun]
          /\ event' = Effect("hq-thrown", r, -1)
          /\ UNCHANGED <<hqEnriched, altEnriched>>
       \/ /\ hqEnriched' = Response(runs[r].from, -1)
          /\ altEnriched' = <<>>
          /\ IF altSources = <<>>
             THEN /\ status' = "Enrichment success."
                  /\ runs' = [runs EXCEPT ![r] = NoRun]
                  /\ event' = Effect("finished", r, -1)
             ELSE /\ status' = status
                  /\ runs' = [runs EXCEPT ![r] = [pc |-> "alt", from |-> @.from,
                                                  offices |-> altSources, i |-> 1]]
                  /\ event' = Effect("request", r, altSources[1].index)
    /\ UNCHANGED <<hqSource, altSources, scrapePending, applyPending>>
    /\ UNCHANGED restOfPopup

\* lines 499-545: the answer to the request for the office run r is at
altResponse(r) ==
    /\ runs[r].pc = "alt"
    /\ LET office == runs[r].offices[runs[r].i]
           last == runs[r].i = Len(runs[r].offices)
       IN  \/ /\ status' = "ERROR: Enrichment failed"
              /\ runs' = [runs EXCEPT ![r] = NoRun]
              /\ event' = Effect("alt-thrown", r, office.index)
              /\ UNCHANGED altEnriched
           \/ /\ \E entry \in {ErrorEntry(office), ResponseEntry(office)} :
                      altEnriched' = Append(altEnriched, entry)
              /\ IF last
                 THEN /\ status' = "Enrichment success."
                      /\ runs' = [runs EXCEPT ![r] = NoRun]
                      /\ event' = Effect("finished", r, office.index)
                 ELSE /\ status' = status
                      /\ runs' = [runs EXCEPT ![r].i = @ + 1]
                      /\ event' = Effect("request", r, runs[r].offices[runs[r].i + 1].index)
    /\ UNCHANGED <<hqSource, hqEnriched, altSources, scrapePending, applyPending>>
    /\ UNCHANGED restOfPopup

\* the click on "Apply enriched data to page" going ahead whatever is held
handleApplyToPage_unguarded ==
    /\ ~applyPending
    /\ status' = "Applying enriched data back to page..."
    /\ applyPending' = TRUE
    /\ event' = NoEffect
    /\ UNCHANGED <<hqSource, hqEnriched, altSources, altEnriched, scrapePending, runs>>
    /\ UNCHANGED restOfPopup

\* lines 561-568: the click on "Apply enriched data to page"
handleApplyToPage ==
    \/ /\ hqEnriched = Null /\ Len(altEnriched) = 0
       /\ event' = Effect("alert", 0, 0)
       /\ UNCHANGED <<hqSource, hqEnriched, altSources, altEnriched, status,
                      scrapePending, applyPending, runs>>
       /\ UNCHANGED restOfPopup
    \/ /\ ~(hqEnriched = Null /\ Len(altEnriched) = 0)
       /\ ~applyPending
       /\ status' = "Applying enriched data back to page..."
       /\ applyPending' = TRUE
       /\ event' = NoEffect
       /\ UNCHANGED <<hqSource, hqEnriched, altSources, altEnriched, scrapePending, runs>>
       /\ UNCHANGED restOfPopup

\* lines 569-588: the callbacks of getActiveTabId and of executeScript, which
\* runs applyAllEnrichedToPage in the page with args [hqEnriched, altEnriched]
applyCallback ==
    /\ applyPending
    /\ applyPending' = FALSE
    /\ \/ /\ status' = "ERROR: No active tab found."
          /\ event' = NoEffect
       \/ /\ status' = "ERROR applying enriched data. See DevTools console."
          /\ event' = Effect("script", 0, 0)
       \/ /\ status' = "Enriched HQ + alternate office data applied to page."
          /\ event' = [kind |-> "applied", hq |-> hqEnriched, alt |-> altEnriched]
    /\ UNCHANGED <<hqSource, hqEnriched, altSources, altEnriched, scrapePending, runs>>
    /\ UNCHANGED restOfPopup

PopupNext ==
    \/ handleUseFieldsFromPage
    \/ scrapeCallback
    \/ handleRunEnrichment
    \/ \E r \in 1..MaxRuns : hqResponse(r)
    \/ \E r \in 1..MaxRuns : altResponse(r)
    \/ handleApplyToPage
    \/ applyCallback

PopupSpec == Init /\ [][PopupNext]_vars

\* the last step ended a run of handleRunEnrichment that had an ok HQ answer
RunEndedAfterHqOk == event.kind \in {"finished", "alt-thrown"}

\* C22: once a run of handleRunEnrichment has had an ok HQ answer and has
\* ended, altEnriched holds one entry per office of altSources, in the same
\* order and with the same index, each with a response or an error flag; a
\* failed request for an office does not keep the later offices from being
\* requested.
C22_OneEntryPerOffice ==
    RunEndedAfterHqOk =>
        /\ Len(altEnriched) = Len(altSources)
        /\ \A b \in 1..Len(altEnriched) :
               /\ b <= Len(altSources) => altEnriched[b].index = altSources[b].index
               /\ altEnriched[b].error # (altEnriched[b].response # Null)

\* an enrichment result computed from a scrape that hqSource no longer holds
Stale(result) == result # Null /\ result.from = "earlier"

\* C23: once handleUseFieldsFromPage has stored a new scrape, neither
\* hqEnriched nor altEnriched holds a result of an earlier scrape, and
\* handleApplyToPage never gives the page such a result.
C23_NoStaleResult ==
    /\ event.kind = "stored" =>
           /\ ~Stale(hqEnriched)
           /\ \A b \in 1..Len(altEnriched) : ~Stale(altEnriched[b].response)
    /\ event.kind = "applied" =>
           /\ ~Stale(event.hq)
           /\ \A b \in 1..Len(event.alt) : ~Stale(event.alt[b].response)

\* the popup state but for the record of the last effect
popupState == <<hqSource, hqEnriched, altSources, altEnriched, status, scrapePending,
                applyPending, runs>>

C27_HqNotOk ==
    [][/\ (event'.kind = "request" /\ event'.office = -1) =>
              UNCHANGED <<hqEnriched, altEnriched>>
       /\ event'.kind = "hq-not-ok" =>
              /\ UNCHANGED <<hqSource, hqEnriched, altSources, altEnriched, scrapePending,
                             applyPending>>
              /\ runs[event'.run].pc = "hq" => runs[event'.run].i = 0
              /\ runs'[event'.run] = NoRun
              /\ \A q \in 1..MaxRuns : q # event'.run => runs'[q] = runs[q]]_vars

\* a run answered non-ok after an earlier run was answered in full: the
\* results of the earlier run are still held
C27_Witness ==
    /\ event.kind = "hq-not-ok"
    /\ status = "Backend HQ error"
    /\ hqEnriched # Null
    /\ Len(altEnriched) = MaxOffices

(***************************************************************************)
(* The one-button popup, popup.js:307-545: runEnrich scrapes the page,     *)
(* posts to the backend and writes the answer into the page.  Every await  *)
(* of runEnrich ends one step; the user may type into the form meanwhile.  *)
(***************************************************************************)

\* "555", a value typed into a field of the form
in_typed == <<"5", "5", "5">>

\* "+1 555", a value formatted by the backend
in_formatted == <<"+", "1", " ", "5", "5", "5">>

\* the text buildAbout returned, whatever it reads
in_about == <<"A", "b", "o", "u", "t">>

\* the bodies of an ok answer: each of formatted_phone, formatted_fax and
\* currency is absent, empty or a value
JsonAnswers ==
    {[formatted_phone |-> p, formatted_fax |-> f, currency |-> c] :
         p \in {Undefined, Str(lit_empty), Str(in_formatted)},
         f \in {Undefined, Str(in_formatted)},
         c \in {Null, Str(in_formatted)}}

\* line 408: const set = (sel, val) => ... el.value = val || ""
set(val) == Or(val, Str(lit_empty))

\* lines 399-421: the HQ values of the answer put into #phone, #fax, #currency
injectHq(p, json) ==
    LET formattedPhone == Or(json.formatted_phone, Null)
        formattedFax == Or(json.formatted_fax, Null)
        currency == Or(json.currency, Null)
    IN  [p EXCEPT !.phone = set(formattedPhone),
                  !.fax = set(formattedFax),
                  !.currency = set(currency)]

\* the user types a value into a field of the form
editPage ==
    /\ \E f \in {"phone", "fax", "currency", "about"} :
           /\ page[f] # Str(in_typed)
           /\ page' = [page EXCEPT ![f] = Str(in_typed)]
    /\ UNCHANGED <<enrichRuns, enrichStatus>>
    /\ UNCHANGED restOfEnrich

\* a run of runEnrich that has returned
Ended(run) == run.pc \in {"off", "returned", "caught", "done"}

\* lines 308-310: the click on the button, up to the first await
runEnrich ==
    /\ \E r \in 1..MaxRuns :
           /\ Ended(enrichRuns[r])
           /\ \A q \in 1..(r - 1) : ~Ended(enrichRuns[q])
           /\ enrichRuns' = [enrichRuns EXCEPT ![r] = [NoEnrich EXCEPT !.pc = "tabs"]]
    /\ enrichStatus' = "Starting scrape..."
    /\ UNCHANGED page
    /\ UNCHANGED restOfEnrich

\* the catch clause, lines 541-544
caught(r) ==
    /\ enrichRuns' = [enrichRuns EXCEPT ![r].pc = "caught"]
    /\ enrichStatus' = "Error: "
    /\ UNCHANGED page

\* lines 310-318: chrome.tabs.query has answered
tabsAnswer(r) ==
    /\ enrichRuns[r].pc = "tabs"
    /\ \/ /\ enrichRuns' = [enrichRuns EXCEPT ![r].pc = "returned"]
          /\ enrichStatus' = "No active tab found."
          /\ UNCHANGED page
       \/ /\ enrichRuns' = [enrichRuns EXCEPT ![r].pc = "scrape"]
          /\ UNCHANGED <<enrichStatus, page>>
       \/ caught(r)
    /\ UNCHANGED restOfEnrich

\* lines 318-385: the scrape script has answered; the request is posted
scrapeAnswer(r) ==
    /\ enrichRuns[r].pc = "scrape"
    /\ \/ /\ enrichRuns' = [enrichRuns EXCEPT ![r].pc = "returned"]
          /\ enrichStatus' = "Scrape failed or returned nothing."
          /\ UNCHANGED page
       \/ /\ enrichRuns' = [enrichRuns EXCEPT ![r].pc = "fetch", ![r].scraped = TRUE]
          /\ enrichStatus' = "Posting to backend..."
          /\ UNCHANGED page
       \/ caught(r)
    /\ UNCHANGED restOfEnrich

\* the answer of the backend taken as ok whatever its status
backendAnswer_anyStatus(r) ==
    /\ enrichRuns[r].pc = "fetch"
    /\ \/ /\ \E json \in JsonAnswers :
                 enrichRuns' = [enrichRuns EXCEPT ![r].pc = "hq", ![r].json = json]
          /\ enrichStatus' = "Backend error"
          /\ UNCHANGED page
       \/ /\ \E json \in JsonAnswers :
                 enrichRuns' = [enrichRuns EXCEPT ![r].pc = "hq", ![r].answered = TRUE,
                                                  ![r].json = json]
          /\ UNCHANGED <<enrichStatus, page>>
       \/ caught(r)
    /\ UNCHANGED restOfEnrich

\* lines 381-396: the backend has answered, or the request has failed
backendAnswer(r) ==
    /\ enrichRuns[r].pc = "fetch"
    /\ \/ /\ enrichRuns' = [enrichRuns EXCEPT ![r].pc = "returned"]
          /\ enrichStatus' = "Backend error"
          /\ UNCHANGED page
       \/ /\ \E json \in JsonAnswers :
                 enrichRuns' = [enrichRuns EXCEPT ![r].pc = "hq", ![r].answered = TRUE,
                                                  ![r].json = json]
          /\ UNCHANGED <<enrichStatus, page>>
       \/ caught(r)
    /\ UNCHANGED restOfEnrich

\* lines 403-423: the script writing the HQ values has run
hqInjected(r) ==
    /\ enrichRuns[r].pc = "hq"
    /\ \/ /\ page' = injectHq(page, enrichRuns[r].json)
          /\ enrichRuns' = [enrichRuns EXCEPT ![r].pc = "alt",
                                               ![r].wrote = Append(@, "hq")]
          /\ enrichStatus' = "Applied HQ values. Processing alternate offices..."
       \/ caught(r)
    /\ UNCHANGED restOfEnrich

\* lines 425-468: the script writing the alternate offices has run, and
\* buildAbout has returned or thrown
altInjected(r) ==
    /\ enrichRuns[r].pc = "alt"
    /\ \/ /\ enrichRuns' = [enrichRuns EXCEPT ![r].pc = "about",
                                               ![r].wrote = Append(@, "alt")]
          /\ enrichStatus' = "Alternate offices updated. Building About section..."
          /\ UNCHANGED page
       \/ /\ enrichRuns' = [enrichRuns EXCEPT ![r].pc = "caught",
                                               ![r].wrote = Append(@, "alt")]
          /\ enrichStatus' = "Error: "
          /\ UNCHANGED page
       \/ caught(r)
    /\ UNCHANGED restOfEnrich

\* lines 471-485: the script writing the About text has run
aboutInjected(r) ==
    /\ enrichRuns[r].pc = "about"
    /\ \/ /\ page' = [page EXCEPT !.about = Str(in_about)]
          /\ enrichRuns' = [enrichRuns EXCEPT ![r].pc = "ma",
                                               ![r].wrote = Append(@, "about")]
          /\ UNCHANGED enrichStatus
       \/ caught(r)
    /\ UNCHANGED restOfEnrich

\* lines 487-540: the script rendering the M&A block has run
maRendered(r) ==
    /\ enrichRuns[r].pc = "ma"
    /\ \/ /\ enrichRuns' = [enrichRuns EXCEPT ![r].pc = "done"]
          /\ enrichStatus' = "Done - About populated."
          /\ UNCHANGED page
       \/ caught(r)
    /\ UNCHANGED restOfEnrich

EnrichNext ==
    \/ editPage
    \/ runEnrich
    \/ \E r \in 1..MaxRuns : tabsAnswer(r)
    \/ \E r \in 1..MaxRuns : scrapeAnswer(r)
    \/ \E r \in 1..MaxRuns : backendAnswer(r)
    \/ \E r \in 1..MaxRuns : hqInjected(r)
    \/ \E r \in 1..MaxRuns : altInjected(r)
    \/ \E r \in 1..MaxRuns : aboutInjected(r)
    \/ \E r \in 1..MaxRuns : maRendered(r)

EnrichSpec == Init /\ [][EnrichNext]_vars

\* s is the start of t
IsPrefix(s, t) == Len(s) <= Len(t) /\ SubSeq(t, 1, Len(s)) = s

\* C25: a run of runEnrich writes to the page only after its scrape returned
\* ok and the backend answered ok, and then in the order HQ values,
\* alternate offices, About text; a run ended by a failed scrape, a non-ok
\* answer or a thrown request has written nothing; "Done - About populated."
\* is shown only by a run whose About injection has run.
C25_WriteAfterOk ==
    /\ \A r \in 1..MaxRuns :
           LET run == enrichRuns[r]
           IN  /\ run.wrote # <<>> => (run.scraped /\ run.answered)
               /\ IsPrefix(run.wrote, <<"hq", "alt", "about">>)
               /\ (Ended(run) /\ ~(run.scraped /\ run.answered)) => run.wrote = <<>>
               /\ run.pc = "done" => run.wrote = <<"hq", "alt", "about">>
    /\ enrichStatus = "Done - About populated." =>
           \E r \in 1..MaxRuns : enrichRuns[r].pc = "done"

\* a run has gone through and shows "Done"
C25_Witness ==
    /\ enrichStatus = "Done - About populated."
    /\ enrichRuns[1].pc = "done"
    /\ enrichRuns[1].wrote = <<"hq", "alt", "about">>
    /\ page.about = Str(in_about)

\* C26: writing the results back never replaces a non-empty page field by
\* an empty value: #phone, #fax and #currency are written only when the
\* answer of the backend supplies a non-empty value for the field, and are
\* left as they are otherwise.
C26_NoFieldEmptied ==
    [][\A f \in {"phone", "fax", "currency"} :
           page[f] # Str(lit_empty) => page'[f] # Str(lit_empty)]_vars

\* ---------------------------------------------------------------------
\* The result-box popup (popup.js:1-164): three buttons whose handlers
\* all write their outcome into one element, resultBox.  A handler runs
\* up to its next await in one step; the steps of several activations
\* interleave.
\* ---------------------------------------------------------------------

\* two answers of the backend that are objects
EnrichedUS == [t |-> "object", hq_country |-> Str(<<"U", "S">>), phone |-> Str(in_formatted)]
EnrichedGB == [t |-> "object", hq_country |-> Str(<<"G", "B">>), phone |-> Undefined]

\* the bodies of an ok answer: res.json() gives whatever JSON value the
\* body holds
BoxData == {Null, Num(<<"5">>), Arr(<<>>), EnrichedUS, EnrichedGB}

\* line 52: JSON.stringify(data, null, 2), the text of a JSON value
stringify(data) == [text |-> "json", v |-> data]

\* line 112: JSON.parse of the text of the box; no status message is the
\* text of a JSON value
parse(text) == IF text.text = "json" THEN text.v ELSE Throw

\* line 118: enrichedData && typeof enrichedData === "object"
IsObject(x) == Truthy(x) /\ x.t \in {"object", "array"}

\* the user types into the popup's inputs, or clears them
editInputs ==
    /\ hasInput' = ~hasInput
    /\ boxEvent' = NoBoxEvent
    /\ UNCHANGED <<resultBox, handlers, lastData>>
    /\ UNCHANGED restOfBox

\* lines 6-43: the click on "Run Enrichment", up to the fetch
runEnrichment ==
    /\ \/ /\ ~hasInput
          /\ resultBox' = StatusText("Please enter at least one field (address/phone).")
          /\ UNCHANGED handlers
       \/ /\ hasInput
          /\ \E r \in 1..MaxRuns :
                 /\ handlers[r] = Idle
                 /\ handlers' = [handlers EXCEPT ![r] = [fn |-> "runEnrichment"]]
          /\ resultBox' = StatusText("Calling backend...")
    /\ boxEvent' = NoBoxEvent
    /\ UNCHANGED <<hasInput, lastData>>
    /\ UNCHANGED restOfBox

\* the answer of the backend written into the box whatever its status
backendAnswered_anyStatus(r) ==
    /\ handlers[r] = [fn |-> "runEnrichment"]
    /\ \/ /\ \E data \in BoxData : resultBox' = stringify(data)
          /\ UNCHANGED lastData
       \/ /\ \E data \in BoxData :
                 /\ resultBox' = stringify(data)
                 /\ lastData' = data
       \/ /\ resultBox' = StatusText("Error calling backend: ")
          /\ UNCHANGED lastData
    /\ handlers' = [handlers EXCEPT ![r] = Idle]
    /\ boxEvent' = NoBoxEvent
    /\ UNCHANGED hasInput
    /\ UNCHANGED restOfBox

\* lines 39-56: the backend has answered, or the request or the reading
\* of the body has failed
backendAnswered(r) ==
    /\ handlers[r] = [fn |-> "runEnrichment"]
    /\ \/ /\ resultBox' = StatusText("Error from backend")
          /\ UNCHANGED lastData
       \/ /\ \E data \in BoxData :
                 /\ resultBox' = stringify(data)
                 /\ lastData' = data
       \/ /\ resultBox' = StatusText("Error calling backend: ")
          /\ UNCHANGED lastData
    /\ handlers' = [handlers EXCEPT ![r] = Idle]
    /\ boxEvent' = NoBoxEvent
    /\ UNCHANGED hasInput
    /\ UNCHANGED restOfBox

\* lines 64-70: the click on "Scrape", up to chrome.tabs.query
scrapeFromPage ==
    /\ \E r \in 1..MaxRuns :
           /\ handlers[r] = Idle
           /\ handlers' = [handlers EXCEPT ![r] = [fn |-> "scrapeFromPage"]]
    /\ resultBox' = StatusText("Reading fields from current page...")
    /\ boxEvent' = NoBoxEvent
    /\ UNCHANGED <<hasInput, lastData>>
    /\ UNCHANGED restOfBox

\* lines 70-99: the tab and the content script have answered
scrapeAnswered(r) ==
    /\ handlers[r] = [fn |-> "scrapeFromPage"]
    /\ \/ /\ resultBox' = StatusText("No active tab found.")
          /\ UNCHANGED hasInput
       \/ /\ resultBox' = StatusText("No data returned from page.")
          /\ UNCHANGED hasInput
       \/ /\ hasInput' \in BOOLEAN
          /\ resultBox' = StatusText("Fields loaded from page. Now click 'Run Enrichment'.")
       \/ /\ resultBox' = StatusText("Error reading from page: ")
          /\ UNCHANGED hasInput
    /\ handlers' = [handlers EXCEPT ![r] = Idle]
    /\ boxEvent' = NoBoxEvent
    /\ UNCHANGED lastData
    /\ UNCHANGED restOfBox

\* lines 107-124: the click on "Apply", up to chrome.tabs.query
applyEnrichedDataToPage ==
    /\ LET enrichedData == parse(resultBox)
       IN  \/ /\ enrichedData = Throw
              /\ resultBox' = StatusText("No enriched data to apply. Run enrichment first.")
              /\ UNCHANGED handlers
           \/ /\ enrichedData # Throw
              /\ ~IsObject(enrichedData)
              /\ resultBox' = StatusText("Invalid enriched data.")
              /\ UNCHANGED handlers
           \/ /\ enrichedData # Throw
              /\ IsObject(enrichedData)
              /\ \E r \in 1..MaxRuns :
                     /\ handlers[r] = Idle
                     /\ handlers' = [handlers EXCEPT
                            ![r] = [fn |-> "applyEnrichedDataToPage",
                                    enrichedData |-> enrichedData]]
              /\ UNCHANGED resultBox
    /\ boxEvent' = [kind |-> "click", text |-> resultBox]
    /\ UNCHANGED <<hasInput, lastData>>
    /\ UNCHANGED restOfBox

\* lines 124-140: the tab has answered and the message is sent, or not
applySent(r) ==
    /\ handlers[r].fn = "applyEnrichedDataToPage"
    /\ \/ /\ resultBox' = StatusText("No active tab.")
          /\ boxEvent' = NoBoxEvent
       \/ /\ resultBox' = StatusText("Error applying data to page: ")
          /\ boxEvent' = NoBoxEvent
       \/ /\ resultBox' \in {StatusText("Enriched data applied to the page."),
                             StatusText("Error applying data to page: ")}
          /\ boxEvent' = [kind |-> "message", type |-> "APPLY_ENRICHMENT",
                          payload |-> handlers[r].enrichedData]
    /\ handlers' = [handlers EXCEPT ![r] = Idle]
    /\ UNCHANGED <<hasInput, lastData>>
    /\ UNCHANGED restOfBox

BoxNext ==
    \/ editInputs
    \/ runEnrichment
    \/ \E r \in 1..MaxRuns : backendAnswered(r)
    \/ scrapeFromPage
    \/ \E r \in 1..MaxRuns : scrapeAnswered(r)
    \/ applyEnrichedDataToPage
    \/ \E r \in 1..MaxRuns : applySent(r)

BoxSpec == Init /\ [][BoxNext]_vars

\* the step starts an activation of applyEnrichedDataToPage in slot r
ApplyStarted(r) ==
    /\ handlers[r] = Idle
    /\ handlers'[r].fn = "applyEnrichedDataToPage"

\* C28: applyEnrichedDataToPage goes on to send APPLY_ENRICHMENT only when,
\* at the click, the result box holds the text of the object that the most
\* recent ok answer of the backend returned, and the message carries that
\* object; clicked while the box holds a status message (left by a scrape,
\* a validation error, a backend error or an earlier apply) it sends
\* nothing and shows "No enriched data to apply. Run enrichment first.".
C28_ApplyOnlyFromJson ==
    [][/\ \A r \in 1..MaxRuns :
              ApplyStarted(r) =>
                  /\ IsObject(lastData)
                  /\ resultBox = stringify(lastData)
                  /\ handlers'[r].enrichedData = lastData
       /\ boxEvent'.kind = "message" =>
              \E r \in 1..MaxRuns :
                  /\ handlers[r].fn = "applyEnrichedDataToPage"
                  /\ boxEvent'.type = "APPLY_ENRICHMENT"
                  /\ boxEvent'.payload = handlers[r].enrichedData
       /\ (boxEvent'.kind = "click" /\ resultBox.text = "status") =>
              /\ \A r \in 1..MaxRuns : ~ApplyStarted(r)
              /\ resultBox' = StatusText("No enriched data to apply. Run enrichment first.")
      ]_vars

\* the object of the last ok answer has been sent to the tab
C28_Witness ==
    /\ boxEvent.kind = "message"
    /\ boxEvent.payload = EnrichedGB
    /\ lastData = EnrichedGB
    /\ resultBox = StatusText("Enriched data applied to the page.")

\* ---------------------------------------------------------------------
\* The floating-panel content script (part_000): a window message starts
\* runEnrichment, whose answer is shown in a panel with the buttons Apply
\* and Close.
\* ---------------------------------------------------------------------

\* an answer of the backend that is an object with the given fields
Suggestion(country, phone, currency) ==
    [t |-> "object", error |-> Undefined, hq_country_iso |-> country,
     formatted_phone |-> phone, firm_currency |-> currency]

\* line 44: {error: 'Could not reach local API ...'}
Unreachable ==
    [t |-> "object", error |-> Str(<<"e", "r", "r">>), hq_country_iso |-> Undefined,
     formatted_phone |-> Undefined, firm_currency |-> Undefined]

\* the bodies res.json() gives: objects with some of the fields, and null
PanelData ==
    {Null,
     Suggestion(Str(<<"U", "S">>), Str(in_formatted), Str(<<"U", "S", "D">>)),
     Suggestion(Str(<<"G", "B">>), Undefined, Str(lit_empty)),
     Suggestion(Undefined, Str(in_typed), Null)}

\* the sequence s without its element i
removeAt(s, i) == SubSeq(s, 1, i - 1) \o SubSeq(s, i + 1, Len(s))

\* lines 54-55: getElementById gives the first panel of the document,
\* which is removed
removeExisting(ps) == IF ps = <<>> THEN ps ELSE Tail(ps)

\* showFloatingPanel without lines 54-55
showFloatingPanel_keeping(ps, data) ==
    IF data = Null
    THEN ps
    ELSE Append(ps, [data |-> data, buttons |-> ~Truthy(data.error)])

\* lines 52-95: the panels of the document after showFloatingPanel(data);
\* reading data.error of null throws after the existing panel is removed
showFloatingPanel(ps, data) ==
    IF data = Null
    THEN removeExisting(ps)
    ELSE Append(removeExisting(ps), [data |-> data, buttons |-> ~Truthy(data.error)])

\* lines 97-111: the fields written by applyToForm(data)
applyToForm(f, data) ==
    [hq_country |-> IF Truthy(data.hq_country_iso) THEN data.hq_country_iso ELSE f.hq_country,
     phone |-> IF Truthy(data.formatted_phone) THEN data.formatted_phone ELSE f.phone,
     firm_currency |-> IF Truthy(data.firm_currency) THEN data.firm_currency
                       ELSE f.firm_currency]

\* lines 3-41: a window message; a PREQIN_ENRICH_REQUEST starts
\* runEnrichment, which runs up to the fetch
onMessage ==
    /\ \/ /\ panelEvent' = "ignored"
          /\ UNCHANGED inFlight
       \/ /\ inFlight < MaxRuns
          /\ inFlight' = inFlight + 1
          /\ panelEvent' = "request"
    /\ UNCHANGED <<panels, form>>
    /\ UNCHANGED restOfPanel

\* lines 36-49: the backend has answered, or could not be reached
fetchAnswered ==
    /\ inFlight > 0
    /\ inFlight' = inFlight - 1
    /\ \/ panels' = showFloatingPanel(panels, Unreachable)
       \/ \E result \in PanelData : panels' = showFloatingPanel(panels, result)
    /\ panelEvent' = "response"
    /\ UNCHANGED form
    /\ UNCHANGED restOfPanel

\* line 90: the click on Close of panel i
closeClicked ==
    /\ \E i \in 1..Len(panels) :
           /\ panels[i].buttons
           /\ panels' = removeAt(panels, i)
    /\ panelEvent' = "close"
    /\ UNCHANGED <<inFlight, form>>
    /\ UNCHANGED restOfPanel

\* lines 91-94: the click on Apply of panel i
applyClicked ==
    /\ \E i \in 1..Len(panels) :
           /\ panels[i].buttons
           /\ form' = applyToForm(form, panels[i].data)
           /\ panels' = removeAt(panels, i)
    /\ panelEvent' = "apply"
    /\ UNCHANGED inFlight
    /\ UNCHANGED restOfPanel

PanelNext ==
    \/ onMessage
    \/ fetchAnswered
    \/ closeClicked
    \/ applyClicked

PanelSpec == Init /\ [][PanelNext]_vars

\* C29: whatever requests, answers and clicks on Apply and Close have
\* happened, the document holds at most one element with id
\* preqin-enricher-panel, and a field of the form changes only in the step
\* of a click on Apply, never in the step where an answer of the backend
\* arrives.
C29_OnePanelApplyOnClick ==
    /\ [](Len(panels) <= 1)
    /\ [][form' # form => panelEvent' = "apply"]_vars

\* two panels have been shown one after the other and Apply was clicked on
\* both: the country is of the second answer, the phone of the first
C29_Witness ==
    /\ panelEvent = "apply"
    /\ panels = <<>>
    /\ form.hq_country = Str(<<"G", "B">>)
    /\ form.phone = Str(in_formatted)
====
